---- MODULE Spec2Model ----
(***************************************************************************)
(* Model of the speech assistant: the call-session relay of main.py        *)
(* (handle_media_stream with its two relay loops), the conversation state  *)
(* aggregator of lib_py/conversation.py, the event bus of                   *)
(* lib_py/event_handler.py and the session transport of lib_py/api.py.     *)
(*                                                                         *)
(* Each component has its own next-state relation and specification:       *)
(*   Spec        the call-session relay (main.py)                          *)
(*   SpecTurns   the relay on media frames and turn events only            *)
(*   SpecConv    the aggregator on well-formed events (conversation.py)    *)
(*   SpecEvents  the aggregator on any event, and on events that refer to  *)
(*               an item or a response by identifier (conversation.py)     *)
(*   SpecBus     the event bus (lib_py/event_handler.py)                   *)
(*   SpecWait    tasks in wait_for_next on the event bus                   *)
(*   SpecApi     the session transport (lib_py/api.py)                     *)
(*   SpecCodec   the base64 codec of lib_py/utils.py on bounded buffers    *)
(*   SpecClient  the client of lib_py/client.py with its aggregator        *)
(* The components share no state, except that the client owns an           *)
(* aggregator; each specification leaves the variables of the others at    *)
(* their initial values.                                                   *)
(***************************************************************************)
EXTENDS Integers, Sequences, FiniteSets, TLC

\* ------------------------------------------------------------------ bounds
\* caller frames the relay receives in one call
MaxFrames == 2
\* AI backend events the relay receives in one call
MaxAiEvents == 3
\* events the aggregator processes
MaxConvEvents == 3
\* calls made on the event bus
MaxBusOps == 4
\* calls made on the session transport, frames and closes it receives
MaxApiOps == 4
\* bytes in a buffer handed to the codec
MaxBufferLen == 4
\* calls made on the client
MaxClientOps == 3

\* ------------------------------------------------------------------ state
VARIABLES
    \* --- handle_media_stream (main.py)
    stream_sid,              \* main.py:73
    ai_generating_response,  \* main.py:74
    user_speaking,           \* main.py:75
    recvPc,                  \* position of receive_from_twilio
    sendPc,                  \* position of send_to_twilio
    aiOpen,                  \* openai_ws.open
    twOpen,                  \* the caller websocket is connected
    aiSent,                  \* frames written to openai_ws, in order
    twSent,                  \* frames written to the caller websocket, in order
    nFrames,                 \* caller frames received so far
    nAiEvents,               \* AI events received so far
    \* --- history of the relay, read only by the properties
    lastDeltaAt,             \* Len(aiSent) when the last audio delta was processed, -1 before
    frameCheckAt,            \* Len(aiSent) when the current frame passed the test of main.py:97, -1 otherwise
    frameItemAudio,          \* itemAudio at that test
    itemAudio,               \* an in-progress assistant item has received audio
    stopSeen,                \* a stop frame was processed
    framesAfterStop,         \* caller frames processed after a stop frame
    recvLast,                \* the last caller frame: the state it met, how its processing ended
    sendLast,                \* the last AI event: the state it met, the flags it left, how its processing ended
    deltaSinceClear,         \* a non-empty audio delta came after the last response.done and the last clear by a cancel path
    \* --- RealtimeConversation (lib_py/conversation.py)
    item_lookup,             \* conversation.py:30, id -> item
    items,                   \* conversation.py:31, the ordered list, by id
    response_lookup,         \* conversation.py:32, id -> response
    responses,               \* conversation.py:33, the ordered list, by id
    queued_speech_items,     \* conversation.py:34
    queued_transcript_items, \* conversation.py:35
    queued_input_audio,      \* conversation.py:36
    \* --- history of the aggregator, read only by the properties
    convSteps,               \* events processed so far
    convLast,                \* the last event processed and how it ended
    \* --- RealtimeEventHandler (lib_py/event_handler.py)
    event_handlers,          \* event_handler.py:9, name -> callbacks
    next_event_handlers,     \* event_handler.py:10, name -> callbacks
    waiters,                 \* the tasks in wait_for_next, event_handler.py:51-67
    \* --- history of the event bus, read only by the properties
    busSteps,                \* calls made so far
    busLast,                 \* the last call, how it ended, the tables before it
    waitHist,                \* per waiting task: what happened since its call
    \* --- RealtimeAPI (lib_py/api.py)
    ws,                      \* api.py:21, 0 is None, else the socket of that number
    socks,                   \* the sockets websockets.connect returned, by number
    listeners,               \* the _listen tasks api.py:46 created, in order
    connPc,                  \* per caller of connect: its position
    wire,                    \* frames transmitted with ws.send, in order
    apiEvents,               \* events the transport dispatched on its bus, in order
    nextEventId,             \* the identifiers generate_id has handed out
    \* --- history of the transport, read only by the properties
    arrived,                 \* the inbound frames with a type, in arrival order
    apiSteps,                \* calls, frames and closes so far
    apiLast,                 \* the last step, how it ended, the state before it
    \* --- RealtimeUtils codec (lib_py/utils.py)
    codecInput,              \* the buffer handed to array_buffer_to_base64
    codecText,               \* the text it returned
    codecOutput,             \* what base64_to_array_buffer made of that text
    codecPc,                 \* position of the round trip
    \* --- RealtimeClient (lib_py/client.py)
    session_config,          \* client.py:75, 103
    tools,                   \* client.py:92, the registered tool names in insertion order
    input_audio_buffer,      \* client.py:93
    realtimeConnected,       \* self.realtime.is_connected()
    sendTasks,               \* the tasks asyncio.create_task made of realtime.send, not yet run
    nTasks,                  \* send tasks created so far
    clientWire,              \* the commands that reached the socket, in order
    \* --- history of the client, read only by the properties
    clientSteps,             \* calls made so far
    clientLast,              \* the last call, how it ended, what it scheduled, the state before it
    appendedSince            \* the non-empty buffers appended since the last commit, concatenated

relayVars == <<stream_sid, ai_generating_response, user_speaking, recvPc, sendPc,
               aiOpen, twOpen, aiSent, twSent, nFrames, nAiEvents,
               lastDeltaAt, frameCheckAt, frameItemAudio, itemAudio, stopSeen,
               framesAfterStop, recvLast, sendLast, deltaSinceClear>>

convVars == <<item_lookup, items, response_lookup, responses, queued_speech_items,
              queued_transcript_items, queued_input_audio, convSteps, convLast>>

busVars == <<event_handlers, next_event_handlers, waiters, busSteps, busLast, waitHist>>

apiVars == <<ws, socks, listeners, connPc, wire, apiEvents, nextEventId, arrived,
             apiSteps, apiLast>>

codecVars == <<codecInput, codecText, codecOutput, codecPc>>

clientVars == <<session_config, tools, input_audio_buffer, realtimeConnected, sendTasks,
                nTasks, clientWire, clientSteps, clientLast, appendedSince>>

vars == <<relayVars, convVars, busVars, apiVars, codecVars, clientVars>>

\* what the actions of one component leave alone
nonRelayVars == <<convVars, busVars, apiVars, codecVars, clientVars>>
nonConvVars == <<relayVars, busVars, apiVars, codecVars, clientVars>>
nonBusVars == <<relayVars, convVars, apiVars, codecVars, clientVars>>
nonApiVars == <<relayVars, convVars, busVars, codecVars, clientVars>>
nonCodecVars == <<relayVars, convVars, busVars, apiVars, clientVars>>
nonClientVars == <<relayVars, convVars, busVars, apiVars, codecVars>>
\* what create_response leaves alone outside the client and its aggregator
nonClientConvVars == <<relayVars, busVars, apiVars, codecVars>>

\* ------------------------------------------------------------ relay: data
\* the event field of a caller frame (main.py:83-111); "badjson" is a frame
\* json.loads rejects, "badmedia" a media frame without media.payload
FrameKinds == {"start", "media", "stop", "mark", "other", "badjson", "badmedia"}

\* the type field of an AI event (main.py:128-167); "delta_empty" is a
\* response.audio.delta whose delta is empty, "badjson" a frame json.loads rejects
AiEventKinds == {"session.updated", "speech_started", "speech_stopped", "delta",
                 "delta_empty", "response.done", "other", "badjson"}

\* base64 payloads of caller media frames: opaque, passed through
MediaPayloads == {"p1", "p2"}

\* base64 payloads of AI audio deltas: "QUJD" is canonical, "QUJD\n" decodes
\* to the same bytes, "Q" is rejected by b64decode
DeltaPayloads == {"QUJD", "QUJD\n", "Q"}

\* base64.b64encode(base64.b64decode(p)).decode('utf-8'), main.py:153;
\* "raise" when b64decode raises
Reencode(p) ==
    CASE p = "QUJD" -> "QUJD"
      [] p = "QUJD\n" -> "QUJD"
      [] OTHER -> "raise"

AppendMsg(p) == [type |-> "input_audio_buffer.append", audio |-> p]

\* an audio frame written where the cancel command belongs
CancelMsg_AsAppend == [type |-> "input_audio_buffer.append", audio |-> "none"]

\* send_response_cancel's frame, main.py:200-203 (the event_id is a fresh uuid)
CancelMsg == [type |-> "response.cancel", audio |-> "none"]

\* a mark frame written where the media frame belongs
MediaMsg_AsMark(sid, p) == [event |-> "mark", streamSid |-> sid, payload |-> p]

MediaMsg(sid, p) == [event |-> "media", streamSid |-> sid, payload |-> p]

\* how many frames of type t were written to openai_ws after the first n
RECURSIVE CountFrom(_, _, _)
CountFrom(s, n, t) ==
    IF n >= Len(s) THEN 0
    ELSE (IF s[n + 1].type = t THEN 1 ELSE 0) + CountFrom(s, n + 1, t)

\* a suspended socket operation resumes normally while the socket is open; once
\* the socket has closed under it, it resumes normally or raises
ResumeRaises == IF aiOpen THEN {FALSE} ELSE {FALSE, TRUE}

\* how far the processing of a frame or an event has come: "no" while it is
\* suspended in an await, "ok" once the loop is back at its head, "raise" once an
\* exception has ended the loop
Ended(pc) == IF pc = "iter" THEN "ok" ELSE IF pc = "done" THEN "raise" ELSE "no"

\* no caller frame received yet
NoFrame ==
    [kind |-> "none", payload |-> "none", user |-> FALSE, generating |-> FALSE,
     aiOpen |-> FALSE, sentBefore |-> 0, ended |-> "ok", generatingAfter |-> FALSE]

\* no AI event received yet
NoAiEvent ==
    [kind |-> "none", payload |-> "none", generating |-> FALSE, sentBefore |-> 0,
     wrote |-> FALSE, twBefore |-> 0, twOpen |-> FALSE, sid |-> "None",
     ended |-> "ok", userAfter |-> FALSE, generatingAfter |-> FALSE]

\* ------------------------------------------------------------ relay: Init
RelayInit ==
    /\ stream_sid = "None"
    /\ ai_generating_response = FALSE
    /\ user_speaking = FALSE
    /\ recvPc = "iter"
    /\ sendPc = "iter"
    /\ aiOpen = TRUE
    /\ twOpen = TRUE
    /\ aiSent = <<[type |-> "session.update", audio |-> "none"]>>
    /\ twSent = <<>>
    /\ nFrames = 0
    /\ nAiEvents = 0
    /\ lastDeltaAt = -1
    /\ frameCheckAt = -1
    /\ frameItemAudio = FALSE
    /\ itemAudio = FALSE
    /\ stopSeen = FALSE
    /\ framesAfterStop = 0
    /\ recvLast = NoFrame
    /\ sendLast = NoAiEvent
    /\ deltaSinceClear = FALSE

\* ------------------------------------------- relay: receive_from_twilio
\* one iteration of the loop of main.py:81 up to its first await
RecvFrame(kind, p) ==
    /\ recvPc = "iter"
    /\ twOpen
    /\ nFrames < MaxFrames
    /\ nFrames' = nFrames + 1
    /\ frameCheckAt' = -1
    /\ frameItemAudio' = FALSE
    /\ framesAfterStop' = IF stopSeen THEN framesAfterStop + 1 ELSE framesAfterStop
    /\ stopSeen' = (stopSeen \/ kind = "stop")
    /\ CASE kind = "start" ->
              /\ stream_sid' = "SID"
              /\ UNCHANGED <<recvPc, aiOpen, aiSent>>
         [] kind = "media" ->
              /\ IF aiOpen
                 THEN /\ aiSent' = Append(aiSent, AppendMsg(p))
                      /\ recvPc' = "append"
                 ELSE /\ recvPc' = "done"
                      /\ UNCHANGED aiSent
              /\ UNCHANGED <<stream_sid, aiOpen>>
         [] kind = "stop" ->
              /\ IF aiOpen
                 THEN /\ aiOpen' = FALSE
                      /\ recvPc' = "close_stop"
                 ELSE UNCHANGED <<aiOpen, recvPc>>
              /\ UNCHANGED <<stream_sid, aiSent>>
         [] kind \in {"mark", "other"} ->
              UNCHANGED <<stream_sid, recvPc, aiOpen, aiSent>>
         [] kind \in {"badjson", "badmedia"} ->
              /\ recvPc' = "done"
              /\ UNCHANGED <<stream_sid, aiOpen, aiSent>>
    /\ UNCHANGED <<ai_generating_response, user_speaking, sendPc, twOpen, twSent,
                   nAiEvents, lastDeltaAt, itemAudio>>
    /\ recvLast' = [kind |-> kind,
                    payload |-> IF kind = "media" THEN p ELSE "none",
                    user |-> user_speaking, generating |-> ai_generating_response,
                    aiOpen |-> aiOpen, sentBefore |-> Len(aiSent),
                    ended |-> Ended(recvPc'),
                    generatingAfter |-> ai_generating_response]
    /\ UNCHANGED <<sendLast, deltaSinceClear>>
    /\ UNCHANGED nonRelayVars

\* main.py:95 resumes, then the test of main.py:97 and the call of
\* send_response_cancel up to its await (main.py:205)
RecvAppendDone(raises) ==
    /\ recvPc = "append"
    /\ raises \in ResumeRaises
    /\ IF raises
       THEN /\ recvPc' = "done"
            /\ UNCHANGED <<aiSent, frameCheckAt, frameItemAudio>>
       ELSE IF user_speaking /\ ai_generating_response
            THEN /\ frameCheckAt' = Len(aiSent)
                 /\ frameItemAudio' = itemAudio
                 /\ IF aiOpen
                    THEN /\ aiSent' = Append(aiSent, CancelMsg)
                         /\ recvPc' = "cancel"
                    ELSE /\ recvPc' = "done"
                         /\ UNCHANGED aiSent
            ELSE /\ recvPc' = "iter"
                 /\ UNCHANGED <<aiSent, frameCheckAt, frameItemAudio>>
    /\ UNCHANGED <<stream_sid, ai_generating_response, user_speaking, sendPc, aiOpen,
                   twOpen, twSent, nFrames, nAiEvents, lastDeltaAt, itemAudio,
                   stopSeen, framesAfterStop>>
    /\ recvLast' = [recvLast EXCEPT !.ended = Ended(recvPc'),
                                     !.generatingAfter = ai_generating_response']
    /\ UNCHANGED <<sendLast, deltaSinceClear>>
    /\ UNCHANGED nonRelayVars

\* main.py:99 resumes, then main.py:100
RecvCancelDone(raises) ==
    /\ recvPc = "cancel"
    /\ raises \in ResumeRaises
    /\ IF raises
       THEN /\ recvPc' = "done"
            /\ UNCHANGED ai_generating_response
       ELSE /\ ai_generating_response' = FALSE
            /\ recvPc' = "iter"
    /\ UNCHANGED <<stream_sid, user_speaking, sendPc, aiOpen, twOpen, aiSent, twSent,
                   nFrames, nAiEvents, lastDeltaAt, frameCheckAt, frameItemAudio, itemAudio,
                   stopSeen, framesAfterStop>>
    /\ recvLast' = [recvLast EXCEPT !.ended = Ended(recvPc'),
                                     !.generatingAfter = ai_generating_response']
    /\ deltaSinceClear' = IF raises THEN deltaSinceClear ELSE FALSE
    /\ UNCHANGED sendLast
    /\ UNCHANGED nonRelayVars

\* main.py:105 resumes: the loop goes on to the next frame
RecvCloseDone ==
    /\ recvPc = "close_stop"
    /\ recvPc' = "iter"
    /\ UNCHANGED <<stream_sid, ai_generating_response, user_speaking, sendPc, aiOpen,
                   twOpen, aiSent, twSent, nFrames, nAiEvents, lastDeltaAt,
                   frameCheckAt, frameItemAudio, itemAudio, stopSeen, framesAfterStop>>
    /\ recvLast' = [recvLast EXCEPT !.ended = Ended(recvPc'),
                                     !.generatingAfter = ai_generating_response']
    /\ UNCHANGED <<sendLast, deltaSinceClear>>
    /\ UNCHANGED nonRelayVars

\* the caller socket has closed while the loop waits for a frame: iter_text
\* either ends the iteration, or WebSocketDisconnect reaches main.py:113-116
RecvDisconnect(asException) ==
    /\ recvPc = "iter"
    /\ ~twOpen
    /\ IF asException /\ aiOpen
       THEN /\ aiOpen' = FALSE
            /\ recvPc' = "close_disc"
       ELSE /\ recvPc' = "done"
            /\ UNCHANGED aiOpen
    /\ UNCHANGED <<stream_sid, ai_generating_response, user_speaking, sendPc, twOpen,
                   aiSent, twSent, nFrames, nAiEvents, lastDeltaAt, frameCheckAt, frameItemAudio,
                   itemAudio, stopSeen, framesAfterStop>>
    /\ UNCHANGED <<recvLast, sendLast, deltaSinceClear>>
    /\ UNCHANGED nonRelayVars

\* main.py:116 resumes
RecvCloseDiscDone ==
    /\ recvPc = "close_disc"
    /\ recvPc' = "done"
    /\ UNCHANGED <<stream_sid, ai_generating_response, user_speaking, sendPc, aiOpen,
                   twOpen, aiSent, twSent, nFrames, nAiEvents, lastDeltaAt,
                   frameCheckAt, frameItemAudio, itemAudio, stopSeen, framesAfterStop>>
    /\ UNCHANGED <<recvLast, sendLast, deltaSinceClear>>
    /\ UNCHANGED nonRelayVars

\* ------------------------------------------------- relay: send_to_twilio
\* one iteration of the loop of main.py:126 up to its first await
AiEvent(kind, p) ==
    /\ sendPc = "iter"
    /\ aiOpen
    /\ nAiEvents < MaxAiEvents
    /\ nAiEvents' = nAiEvents + 1
    /\ CASE kind = "speech_started" ->
              /\ user_speaking' = TRUE
              /\ IF ai_generating_response
                 THEN /\ aiSent' = Append(aiSent, CancelMsg)
                      /\ sendPc' = "cancel"
                 ELSE UNCHANGED <<aiSent, sendPc>>
              /\ UNCHANGED <<ai_generating_response, twSent, lastDeltaAt, itemAudio>>
         [] kind = "speech_stopped" ->
              /\ user_speaking' = FALSE
              /\ UNCHANGED <<ai_generating_response, aiSent, sendPc, twSent,
                             lastDeltaAt, itemAudio>>
         [] kind = "delta" ->
              /\ ai_generating_response' = TRUE
              /\ lastDeltaAt' = Len(aiSent)
              /\ itemAudio' = TRUE
              /\ IF Reencode(p) # "raise" /\ twOpen
                 THEN /\ twSent' = Append(twSent, MediaMsg(stream_sid, Reencode(p)))
                      /\ sendPc' = "fwd"
                 ELSE UNCHANGED <<twSent, sendPc>>
              /\ UNCHANGED <<user_speaking, aiSent>>
         [] kind = "response.done" ->
              /\ ai_generating_response' = FALSE
              /\ itemAudio' = FALSE
              /\ UNCHANGED <<user_speaking, aiSent, sendPc, twSent, lastDeltaAt>>
         [] kind \in {"session.updated", "delta_empty", "other"} ->
              UNCHANGED <<ai_generating_response, user_speaking, aiSent, sendPc,
                          twSent, lastDeltaAt, itemAudio>>
         [] kind = "badjson" ->
              /\ sendPc' = "done"
              /\ UNCHANGED <<ai_generating_response, user_speaking, aiSent, twSent,
                             lastDeltaAt, itemAudio>>
    /\ UNCHANGED <<stream_sid, recvPc, aiOpen, twOpen, nFrames, frameCheckAt, frameItemAudio,
                   stopSeen, framesAfterStop>>
    /\ sendLast' = [kind |-> kind,
                    payload |-> IF kind = "delta" THEN p ELSE "none",
                    generating |-> ai_generating_response,
                    sentBefore |-> Len(aiSent), wrote |-> Len(aiSent') > Len(aiSent),
                    twBefore |-> Len(twSent), twOpen |-> twOpen, sid |-> stream_sid,
                    ended |-> Ended(sendPc'), userAfter |-> user_speaking',
                    generatingAfter |-> ai_generating_response']
    /\ deltaSinceClear' = CASE kind = "delta" -> TRUE
                                [] kind = "response.done" -> FALSE
                                [] OTHER -> deltaSinceClear
    /\ UNCHANGED recvLast
    /\ UNCHANGED nonRelayVars

\* main.py:141 resumes, then main.py:142
SendCancelDone(raises) ==
    /\ sendPc = "cancel"
    /\ raises \in ResumeRaises
    /\ IF raises
       THEN /\ sendPc' = "done"
            /\ UNCHANGED ai_generating_response
       ELSE /\ ai_generating_response' = FALSE
            /\ sendPc' = "iter"
    /\ UNCHANGED <<stream_sid, user_speaking, recvPc, aiOpen, twOpen, aiSent, twSent,
                   nFrames, nAiEvents, lastDeltaAt, frameCheckAt, frameItemAudio, itemAudio,
                   stopSeen, framesAfterStop>>
    /\ sendLast' = [sendLast EXCEPT !.ended = Ended(sendPc'),
                                     !.userAfter = user_speaking',
                                     !.generatingAfter = ai_generating_response']
    /\ deltaSinceClear' = IF raises THEN deltaSinceClear ELSE FALSE
    /\ UNCHANGED recvLast
    /\ UNCHANGED nonRelayVars

\* main.py:161 resumes; an exception of send_json is caught at main.py:162
SendFwdDone ==
    /\ sendPc = "fwd"
    /\ sendPc' = "iter"
    /\ UNCHANGED <<stream_sid, ai_generating_response, user_speaking, recvPc, aiOpen,
                   twOpen, aiSent, twSent, nFrames, nAiEvents, lastDeltaAt,
                   frameCheckAt, frameItemAudio, itemAudio, stopSeen, framesAfterStop>>
    /\ sendLast' = [sendLast EXCEPT !.ended = Ended(sendPc')]
    /\ UNCHANGED <<recvLast, deltaSinceClear>>
    /\ UNCHANGED nonRelayVars

\* the iteration of main.py:126 ends once openai_ws has closed
SendLoopEnd ==
    /\ sendPc = "iter"
    /\ ~aiOpen
    /\ sendPc' = "done"
    /\ UNCHANGED <<stream_sid, ai_generating_response, user_speaking, recvPc, aiOpen,
                   twOpen, aiSent, twSent, nFrames, nAiEvents, lastDeltaAt,
                   frameCheckAt, frameItemAudio, itemAudio, stopSeen, framesAfterStop>>
    /\ UNCHANGED <<recvLast, sendLast, deltaSinceClear>>
    /\ UNCHANGED nonRelayVars

\* ------------------------------------------------ relay: the two peers
\* the AI backend closes its socket
AiRemoteClose ==
    /\ aiOpen
    /\ aiOpen' = FALSE
    /\ UNCHANGED <<stream_sid, ai_generating_response, user_speaking, recvPc, sendPc,
                   twOpen, aiSent, twSent, nFrames, nAiEvents, lastDeltaAt,
                   frameCheckAt, frameItemAudio, itemAudio, stopSeen, framesAfterStop>>
    /\ UNCHANGED <<recvLast, sendLast, deltaSinceClear>>
    /\ UNCHANGED nonRelayVars

\* the caller hangs up: the caller socket closes
TwilioClose ==
    /\ twOpen
    /\ twOpen' = FALSE
    /\ UNCHANGED <<stream_sid, ai_generating_response, user_speaking, recvPc, sendPc,
                   aiOpen, aiSent, twSent, nFrames, nAiEvents, lastDeltaAt,
                   frameCheckAt, frameItemAudio, itemAudio, stopSeen, framesAfterStop>>
    /\ UNCHANGED <<recvLast, sendLast, deltaSinceClear>>
    /\ UNCHANGED nonRelayVars

\* ---------------------------------------------------- utils: the codec
\* the base64 alphabet, one character per element
B64Chars ==
    <<"A", "B", "C", "D", "E", "F", "G", "H", "I", "J", "K", "L", "M", "N", "O", "P",
      "Q", "R", "S", "T", "U", "V", "W", "X", "Y", "Z", "a", "b", "c", "d", "e", "f",
      "g", "h", "i", "j", "k", "l", "m", "n", "o", "p", "q", "r", "s", "t", "u", "v",
      "w", "x", "y", "z", "0", "1", "2", "3", "4", "5", "6", "7", "8", "9", "+", "/">>

\* the 6-bit value of each character of the alphabet
B64Values == [c \in {B64Chars[i] : i \in 1..64} |->
                 (CHOOSE i \in 1..64 : B64Chars[i] = c) - 1]

IsB64Char(c) == c \in DOMAIN B64Values

B64Value(c) == B64Values[c]

\* the alphabet taken one place further on
B64Char_Shifted(n) == B64Chars[((n + 1) % 64) + 1]

B64Char(n) == B64Chars[n + 1]

\* RealtimeUtils.array_buffer_to_base64: bytes to a sequence of characters
RECURSIVE array_buffer_to_base64(_)
array_buffer_to_base64(b) ==
    IF Len(b) = 0 THEN <<>>
    ELSE IF Len(b) = 1 THEN
        <<B64Char(b[1] \div 4), B64Char((b[1] % 4) * 16), "=", "=">>
    ELSE IF Len(b) = 2 THEN
        <<B64Char(b[1] \div 4), B64Char((b[1] % 4) * 16 + b[2] \div 16),
          B64Char((b[2] % 16) * 4), "=">>
    ELSE
        <<B64Char(b[1] \div 4), B64Char((b[1] % 4) * 16 + b[2] \div 16),
          B64Char((b[2] % 16) * 4 + b[3] \div 64), B64Char(b[3] % 64)>>
        \o array_buffer_to_base64(SubSeq(b, 4, Len(b)))

\* the bytes of a sequence of 6-bit values, four values to three bytes
RECURSIVE B64Bytes(_)
B64Bytes(v) ==
    IF Len(v) < 2 THEN <<>>
    ELSE IF Len(v) = 2 THEN <<v[1] * 4 + v[2] \div 16>>
    ELSE IF Len(v) = 3 THEN
        <<v[1] * 4 + v[2] \div 16, (v[2] % 16) * 16 + v[3] \div 4>>
    ELSE
        <<v[1] * 4 + v[2] \div 16, (v[2] % 16) * 16 + v[3] \div 4,
          (v[3] % 4) * 64 + v[4]>>
        \o B64Bytes(SubSeq(v, 5, Len(v)))

\* RealtimeUtils.base64_to_array_buffer: base64.b64decode without validation
\* drops the characters outside the alphabet and raises on incomplete padding.
\* Padding is taken to stand at the end of the text.
base64_to_array_buffer(s) ==
    LET data == SelectSeq(s, IsB64Char)
        pads == Len(SelectSeq(s, LAMBDA c : c = "="))
        n == Len(data) % 4
        ok == n = 0 \/ (n = 2 /\ pads >= 2) \/ (n = 3 /\ pads >= 1)
    IN  IF ok
        THEN [ok |-> TRUE, bytes |-> B64Bytes([i \in DOMAIN data |-> B64Value(data[i])])]
        ELSE [ok |-> FALSE, bytes |-> <<>>]

\* the byte values a buffer is drawn from
ByteValues == {0, 77, 255}

\* the buffers handed to the codec
RECURSIVE BuffersOfLen(_)
BuffersOfLen(n) ==
    IF n = 0 THEN {<<>>}
    ELSE {Append(b, v) : b \in BuffersOfLen(n - 1), v \in ByteValues}

Buffers == UNION {BuffersOfLen(n) : n \in 0..MaxBufferLen}

\* no text decoded yet
NoDecode == [ok |-> FALSE, bytes |-> <<>>]

\* no round trip under way: the state of the codec in the other specifications
CodecIdle ==
    /\ codecInput = <<>>
    /\ codecText = <<>>
    /\ codecOutput = NoDecode
    /\ codecPc = "idle"

\* a buffer about to make the round trip
CodecInit ==
    /\ codecInput \in Buffers
    /\ codecText = <<>>
    /\ codecOutput = NoDecode
    /\ codecPc = "start"

\* array_buffer_to_base64(codecInput)
Encode ==
    /\ codecPc = "start"
    /\ codecText' = array_buffer_to_base64(codecInput)
    /\ codecPc' = "encoded"
    /\ UNCHANGED <<codecInput, codecOutput>>
    /\ UNCHANGED nonCodecVars

\* base64_to_array_buffer(codecText)
Decode ==
    /\ codecPc = "encoded"
    /\ codecOutput' = base64_to_array_buffer(codecText)
    /\ codecPc' = "decoded"
    /\ UNCHANGED <<codecInput, codecText>>
    /\ UNCHANGED nonCodecVars

\* RealtimeUtils.merge_int16_arrays on two bytes objects
merge_int16_arrays(left, right) == left \o right

\* bytes of one PCM16 sample (RealtimeUtils.float_to_16bit_pcm packs a sample
\* with int.to_bytes(2, ...); merge_int16_arrays: "bytes representing Int16Arrays")
BytesPerSample == 2

\* the audio samples a bytes object holds
SampleCount(b) == Len(b) \div BytesPerSample

\* ------------------------------------------------- aggregator: data
\* RealtimeConversation.default_frequency
default_frequency == 24000

ItemIds == {"X", "Y"}
ResponseIds == {"R", "S"}

\* transcripts and texts are sequences of tokens, '' is <<>>
Transcripts == {<<"hi">>, <<"yo">>}

\* item['formatted'] as conversation.py:69-73 sets it
FormattedInit ==
    [audio |-> <<>>, text |-> <<>>, transcript |-> <<>>,
     hasTool |-> FALSE, toolArgs |-> <<>>, hasOutput |-> FALSE]

Part(t, txt) == [type |-> t, text |-> txt, transcript |-> <<>>]

\* the item of a conversation.item.created event; it has no 'formatted' key
\* until conversation.py:69 sets one
EventItem(id, type, role, hasContent, content) ==
    [id |-> id, type |-> type, role |-> role, status |-> "none",
     hasContent |-> hasContent, content |-> content, arguments |-> <<>>,
     hasFormatted |-> FALSE, formatted |-> FormattedInit]

EventItems ==
    UNION {{EventItem(id, "message", "user", TRUE, <<Part("input_audio", <<>>)>>),
            EventItem(id, "message", "user", TRUE, <<Part("input_text", <<"hey">>)>>),
            EventItem(id, "message", "assistant", TRUE, <<>>),
            EventItem(id, "function_call", "none", FALSE, <<>>),
            EventItem(id, "function_call_output", "none", FALSE, <<>>)} : id \in ItemIds}

\* offsets in milliseconds carried by truncate, speech_started and
\* speech_stopped events
TruncateOffsets == {0, 1}
SpeechStarts == {0, 1}
SpeechEnds == {1, 2}

\* the caller input-audio buffer handed to speech_stopped: 48 samples of PCM16
InputBufferLen == 96
InputBuffer == [i \in 1..InputBufferLen |-> i]

\* buffers passed as input_audio_buffer: None (or b'') and the full buffer
InputBuffers == {<<>>, InputBuffer}

\* decoded audio of the response.audio.delta events: 24 samples of PCM16
DeltaChunkLen == 48
DeltaChunk == [i \in 1..DeltaChunkLen |-> 100 + i]

\* the delta field of response.audio.delta events; the last one is not base64
AudioDeltas == {array_buffer_to_base64(DeltaChunk), <<"Q", "U", "I">>}

\* buffers passed to queue_input_audio
PendingAudio == {<<>>, <<7, 8>>}

Put(f, k, v) == [x \in DOMAIN f \cup {k} |-> IF x = k THEN v ELSE f[x]]

\* del skipped: the mapping keeps the key
RemoveKey_Keep(f, k) == f

RemoveKey(f, k) == [x \in DOMAIN f \ {k} |-> f[x]]

\* list.remove skipped: the list keeps the element
RemoveFirst_Keep(s, v) == s

\* list.remove(v): the list without its first element equal to v
RECURSIVE RemoveFirst(_, _)
RemoveFirst(s, v) ==
    IF s = <<>> THEN <<>>
    ELSE IF Head(s) = v THEN Tail(s)
    ELSE <<Head(s)>> \o RemoveFirst(Tail(s), v)

Min(a, b) == IF a < b THEN a ELSE b

\* b[lo:hi] of Python for 0 <= lo, 0 <= hi
PySlice(b, lo, hi) == SubSeq(b, Min(lo, Len(b)) + 1, Min(hi, Len(b)))

\* (ms * self.default_frequency) // 1000, conversation.py:117, 163, 164
MsToIndex(ms) == (ms * default_frequency) \div 1000

\* item['formatted']['text'] += content.get('text', '') over the text parts
RECURSIVE ConcatText(_)
ConcatText(content) ==
    IF content = <<>> THEN <<>>
    ELSE (IF Head(content).type \in {"text", "input_text"} THEN Head(content).text
          ELSE <<>>) \o ConcatText(Tail(content))

ConvInit ==
    /\ item_lookup = <<>>
    /\ items = <<>>
    /\ response_lookup = <<>>
    /\ responses = <<>>
    /\ queued_speech_items = <<>>
    /\ queued_transcript_items = <<>>
    /\ queued_input_audio = <<>>
    /\ convSteps = 0
    /\ convLast = [op |-> "none", id |-> "none", res |-> "ok", arg |-> 0, pre |-> 0,
                   gone |-> {}, replay |-> <<>>]

\* ---------------------------------------------- aggregator: handlers
\* the identifiers deleted by an item.deleted event and not named by an
\* item.created event since, after an event of type op for id that ended res
Gone(op, id, res) ==
    IF op = "item.deleted" /\ res = "ok" THEN convLast.gone \cup {id}
    ELSE IF op = "item.created" THEN convLast.gone \ {id}
    ELSE convLast.gone

\* per item of the collection, what the events processed for it so far spell
\* out: the text parts it was created with followed by its text deltas, its
\* audio deltas cut by its truncations, its argument deltas
Replayed(op, id, res, arg) ==
    LET r == convLast.replay
    IN  CASE op = "item.created" /\ id \notin DOMAIN item_lookup ->
               Put(r, id, [text |-> IF arg.hasContent THEN ConcatText(arg.content)
                                    ELSE <<>>,
                           audio |-> <<>>, args |-> <<>>])
          [] op = "item.deleted" /\ res = "ok" ->
               [x \in DOMAIN r \ {id} |-> r[x]]
          [] op = "response.text.delta" /\ res = "ok" ->
               [r EXCEPT ![id].text = @ \o arg]
          [] op = "response.audio.delta" /\ res = "ok" ->
               [r EXCEPT ![id].audio = @ \o base64_to_array_buffer(arg).bytes]
          [] op = "item.truncated" /\ res = "ok" ->
               [r EXCEPT ![id].audio = PySlice(@, 0, MsToIndex(arg))]
          [] op = "response.function_call_arguments.delta" /\ res = "ok" ->
               [r EXCEPT ![id].args = @ \o arg]
          [] OTHER -> r

\* what every processed event records: its type, the identifier it refers
\* to, how the handler ended, its argument and what the handler saw of the
\* state before it ran
Processed(op, id, res, arg, pre) ==
    /\ convSteps < MaxConvEvents
    /\ convSteps' = convSteps + 1
    /\ convLast' = [op |-> op, id |-> id, res |-> res, arg |-> arg, pre |-> pre,
                    gone |-> Gone(op, id, res), replay |-> Replayed(op, id, res, arg)]

\* the whole state of the aggregator, conversation.py:30-36
ConvState ==
    [item_lookup |-> item_lookup, items |-> items, response_lookup |-> response_lookup,
     responses |-> responses, queued_speech_items |-> queued_speech_items,
     queued_transcript_items |-> queued_transcript_items,
     queued_input_audio |-> queued_input_audio]

\* the queued speech segment and the queued transcript of an identifier as
\* an event finds them
NoSpeech == [audio_start_ms |-> -1, audio_end_ms |-> -1, hasAudio |-> FALSE,
             audio |-> <<>>]

SeenByCreated(id) ==
    [isNew |-> id \notin DOMAIN item_lookup,
     hasSpeech |-> id \in DOMAIN queued_speech_items,
     speech |-> IF id \in DOMAIN queued_speech_items THEN queued_speech_items[id]
                ELSE NoSpeech,
     hasTranscript |-> id \in DOMAIN queued_transcript_items,
     transcript |-> IF id \in DOMAIN queued_transcript_items
                    THEN queued_transcript_items[id].transcript ELSE <<>>,
     pending |-> queued_input_audio,
     item_lookup |-> item_lookup, items |-> items]

PriorAudio(id) == IF id \in DOMAIN item_lookup THEN item_lookup[id].formatted.audio
                  ELSE <<>>

\* the test of conversation.py:65 left out: every event inserts
IsNewItem_Always(id) == TRUE

\* item['id'] not in self.item_lookup, conversation.py:65
IsNewItem(id) == id \notin DOMAIN item_lookup

\* the queued speech segment of the item has no 'audio' key: conversation.py:76
\* raises KeyError
SpeechAudioMissing(id) ==
    id \in DOMAIN queued_speech_items /\ ~queued_speech_items[id].hasAudio

\* the item as conversation.py:69-106 leave it when no statement raises
CreatedItem(it) ==
    LET id == it.id
        item == [it EXCEPT !.hasFormatted = TRUE]
        f1 == IF id \in DOMAIN queued_speech_items
              THEN [FormattedInit EXCEPT !.audio = queued_speech_items[id].audio]
              ELSE FormattedInit
        f2 == IF it.hasContent THEN [f1 EXCEPT !.text = ConcatText(it.content)] ELSE f1
        f3 == IF id \in DOMAIN queued_transcript_items
              THEN [f2 EXCEPT !.transcript = queued_transcript_items[id].transcript]
              ELSE f2
    IN  CASE it.type = "message" /\ it.role = "user" ->
               [item EXCEPT !.status = "completed",
                          !.formatted = IF queued_input_audio # <<>>
                                        THEN [f3 EXCEPT !.audio = queued_input_audio]
                                        ELSE f3]
          [] it.type = "message" /\ it.role # "user" ->
               [item EXCEPT !.status = "in_progress", !.formatted = f3]
          [] it.type = "function_call" ->
               [item EXCEPT !.status = "in_progress",
                          !.formatted = [f3 EXCEPT !.hasTool = TRUE, !.toolArgs = <<>>]]
          [] it.type = "function_call_output" ->
               [item EXCEPT !.status = "completed",
                          !.formatted = [f3 EXCEPT !.hasOutput = TRUE]]

\* _process_item_created, conversation.py:63-108
ProcessItemCreated(it) ==
    LET id == it.id
        raises == SpeechAudioMissing(id)
        stored == IF raises
                  THEN [it EXCEPT !.hasFormatted = TRUE, !.formatted = FormattedInit]
                  ELSE CreatedItem(it)
    IN  /\ Processed("item.created", id, IF raises THEN "KeyError" ELSE "ok", it,
                     SeenByCreated(id))
        /\ IF IsNewItem(id)
           THEN /\ item_lookup' = Put(item_lookup, id, stored)
                /\ items' = Append(items, id)
           ELSE UNCHANGED <<item_lookup, items>>
        /\ IF raises
           THEN UNCHANGED <<queued_speech_items, queued_transcript_items,
                            queued_input_audio>>
           ELSE /\ queued_speech_items' = RemoveKey(queued_speech_items, id)
                /\ queued_transcript_items' = RemoveKey(queued_transcript_items, id)
                /\ queued_input_audio' =
                       IF it.type = "message" /\ it.role = "user" THEN <<>>
                       ELSE queued_input_audio
        /\ UNCHANGED <<response_lookup, responses>>
        /\ UNCHANGED nonConvVars

\* item['formatted']['audio'][:end_index], conversation.py:117-119
TruncatedAudio(audio, audio_end_ms) == PySlice(audio, 0, MsToIndex(audio_end_ms))

\* _process_item_truncated, conversation.py:110-120
ProcessItemTruncated(id, audio_end_ms) ==
    /\ IF id \notin DOMAIN item_lookup
       THEN /\ Processed("item.truncated", id, "NotFound", audio_end_ms, ConvState)
            /\ UNCHANGED item_lookup
       ELSE /\ Processed("item.truncated", id, "ok", audio_end_ms, PriorAudio(id))
            /\ item_lookup' =
                   [item_lookup EXCEPT
                       ![id].formatted.transcript = <<>>,
                       ![id].formatted.audio = TruncatedAudio(@, audio_end_ms)]
    /\ UNCHANGED <<items, response_lookup, responses, queued_speech_items,
                   queued_transcript_items, queued_input_audio>>
    /\ UNCHANGED nonConvVars

\* the test of conversation.py:125 left out: the handler goes on without item
DeletedItemAbsent_Never(id) == FALSE

\* if not item, conversation.py:124-125
DeletedItemAbsent(id) == id \notin DOMAIN item_lookup

\* _process_item_deleted, conversation.py:122-131
ProcessItemDeleted(id) ==
    /\ IF DeletedItemAbsent(id)
       THEN /\ Processed("item.deleted", id, "NotFound", 0, ConvState)
            /\ UNCHANGED <<item_lookup, items>>
       ELSE /\ Processed("item.deleted", id, "ok", 0,
                         [found |-> id \in DOMAIN item_lookup, items |-> items])
            /\ item_lookup' = RemoveKey(item_lookup, id)
            /\ items' = RemoveFirst(items, id)
    /\ UNCHANGED <<response_lookup, responses, queued_speech_items,
                   queued_transcript_items, queued_input_audio>>
    /\ UNCHANGED nonConvVars

\* if not item, conversation.py:139: the transcript is queued
TranscriptIsQueued(id) == id \notin DOMAIN item_lookup

\* _process_input_audio_transcription_completed, conversation.py:133-146
ProcessTranscriptionCompleted(id, content_index, transcript) ==
    /\ IF TranscriptIsQueued(id)
       THEN /\ Processed("transcription.completed", id, "ok", transcript,
                         id \in DOMAIN item_lookup)
            /\ queued_transcript_items' =
                   Put(queued_transcript_items, id, [transcript |-> transcript])
            /\ UNCHANGED item_lookup
       ELSE IF ~item_lookup[id].hasContent
       THEN /\ Processed("transcription.completed", id, "KeyError", transcript, TRUE)
            /\ UNCHANGED <<item_lookup, queued_transcript_items>>
       ELSE /\ Processed("transcription.completed", id, "ok", transcript,
                         id \in DOMAIN item_lookup)
            /\ item_lookup' =
                   IF 0 <= content_index /\ content_index < Len(item_lookup[id].content)
                   THEN [item_lookup EXCEPT
                            ![id].content[content_index + 1].transcript = transcript,
                            ![id].formatted.transcript = transcript]
                   ELSE item_lookup
            /\ UNCHANGED queued_transcript_items
    /\ UNCHANGED <<items, response_lookup, responses, queued_speech_items,
                   queued_input_audio>>
    /\ UNCHANGED nonConvVars

\* _process_speech_started, conversation.py:148-152
SpeechStarted(id, audio_start_ms) ==
    /\ queued_speech_items' =
           Put(queued_speech_items, id,
               [audio_start_ms |-> audio_start_ms, audio_end_ms |-> -1,
                hasAudio |-> FALSE, audio |-> <<>>])
    /\ UNCHANGED <<item_lookup, items, response_lookup, responses,
                   queued_transcript_items, queued_input_audio>>
    /\ UNCHANGED nonConvVars

\* process_event on a well-formed input_audio_buffer.speech_started event
ProcessSpeechStarted(id, audio_start_ms) ==
    /\ Processed("speech_started", id, "ok", audio_start_ms, 0)
    /\ SpeechStarted(id, audio_start_ms)

\* input_audio_buffer[start_index:end_index], conversation.py:163-165
SpeechSlice(buffer, audio_start_ms, audio_end_ms) ==
    PySlice(buffer, MsToIndex(audio_start_ms), MsToIndex(audio_end_ms))

\* _process_speech_stopped, conversation.py:154-167
ProcessSpeechStopped(id, audio_end_ms, buffer) ==
    /\ Processed("speech_stopped", id, "ok", audio_end_ms, buffer)
    /\ IF id \notin DOMAIN queued_speech_items
       THEN UNCHANGED queued_speech_items
       ELSE queued_speech_items' =
                [queued_speech_items EXCEPT
                    ![id] = IF buffer # <<>>
                            THEN [@ EXCEPT
                                     !.audio_end_ms = audio_end_ms,
                                     !.hasAudio = TRUE,
                                     !.audio = SpeechSlice(
                                                   buffer,
                                                   queued_speech_items[id].audio_start_ms,
                                                   audio_end_ms)]
                            ELSE [@ EXCEPT !.audio_end_ms = audio_end_ms]]
    /\ UNCHANGED <<item_lookup, items, response_lookup, responses,
                   queued_transcript_items, queued_input_audio>>
    /\ UNCHANGED nonConvVars

\* the test of conversation.py:171 left out: every event inserts
IsNewResponse_Always(id) == TRUE

\* response.get('id') not in self.response_lookup, conversation.py:171
IsNewResponse(id) == id \notin DOMAIN response_lookup

\* _process_response_created, conversation.py:169-174
ProcessResponseCreated(id) ==
    /\ Processed("response.created", id, "ok", 0,
                 [isNew |-> id \notin DOMAIN response_lookup,
                  response_lookup |-> response_lookup, responses |-> responses])
    /\ IF IsNewResponse(id)
       THEN /\ response_lookup' = Put(response_lookup, id, [id |-> id, output |-> <<>>])
            /\ responses' = Append(responses, id)
       ELSE UNCHANGED <<response_lookup, responses>>
    /\ UNCHANGED <<item_lookup, items, queued_speech_items, queued_transcript_items,
                   queued_input_audio>>
    /\ UNCHANGED nonConvVars

\* _process_response_output_item_added, conversation.py:176-183
ProcessResponseOutputItemAdded(response_id, item_id) ==
    /\ IF response_id \notin DOMAIN response_lookup
       THEN /\ Processed("response.output_item.added", response_id, "NotFound", item_id,
                         ConvState)
            /\ UNCHANGED response_lookup
       ELSE /\ Processed("response.output_item.added", response_id, "ok", item_id, 0)
            /\ response_lookup' =
                   [response_lookup EXCEPT ![response_id].output = Append(@, item_id)]
    /\ UNCHANGED <<item_lookup, items, responses, queued_speech_items,
                   queued_transcript_items, queued_input_audio>>
    /\ UNCHANGED nonConvVars

\* _process_response_audio_delta, conversation.py:220-232
ProcessResponseAudioDelta(id, delta) ==
    LET array_buffer == base64_to_array_buffer(delta)
    IN  /\ IF id \notin DOMAIN item_lookup
           THEN /\ Processed("response.audio.delta", id, "NotFound", delta, ConvState)
                /\ UNCHANGED item_lookup
           ELSE IF ~array_buffer.ok
           THEN /\ Processed("response.audio.delta", id, "DecodeError", delta, PriorAudio(id))
                /\ UNCHANGED item_lookup
           ELSE /\ Processed("response.audio.delta", id, "ok", delta, PriorAudio(id))
                /\ item_lookup' =
                       [item_lookup EXCEPT
                           ![id].formatted.audio =
                               merge_int16_arrays(@, array_buffer.bytes)]
        /\ UNCHANGED <<items, response_lookup, responses, queued_speech_items,
                       queued_transcript_items, queued_input_audio>>
        /\ UNCHANGED nonConvVars

\* the key item of the event is missing, conversation.py:187-188
ItemMissing(hasItem) == ~hasItem

\* _process_response_output_item_done, conversation.py:185-195
ProcessResponseOutputItemDone(hasItem, id, status) ==
    /\ IF ItemMissing(hasItem)
       THEN /\ Processed("response.output_item.done", id, "MissingItem", status, ConvState)
            /\ UNCHANGED item_lookup
       ELSE IF id \notin DOMAIN item_lookup
       THEN /\ Processed("response.output_item.done", id, "NotFound", status, ConvState)
            /\ UNCHANGED item_lookup
       ELSE /\ Processed("response.output_item.done", id, "ok", status, 0)
            /\ item_lookup' = [item_lookup EXCEPT ![id].status = status]
    /\ UNCHANGED <<items, response_lookup, responses, queued_speech_items,
                   queued_transcript_items, queued_input_audio>>
    /\ UNCHANGED nonConvVars

\* _process_response_content_part_added, conversation.py:197-204; an item
\* without 'content' raises KeyError at line 203
ProcessResponseContentPartAdded(id, part) ==
    /\ IF id \notin DOMAIN item_lookup
       THEN /\ Processed("response.content_part.added", id, "NotFound", part, ConvState)
            /\ UNCHANGED item_lookup
       ELSE IF ~item_lookup[id].hasContent
       THEN /\ Processed("response.content_part.added", id, "KeyError", part, 0)
            /\ UNCHANGED item_lookup
       ELSE /\ Processed("response.content_part.added", id, "ok", part, 0)
            /\ item_lookup' = [item_lookup EXCEPT ![id].content = Append(@, part)]
    /\ UNCHANGED <<items, response_lookup, responses, queued_speech_items,
                   queued_transcript_items, queued_input_audio>>
    /\ UNCHANGED nonConvVars

\* item['content'][content_index] raises: no 'content' key (KeyError) or no
\* part at the index (IndexError), conversation.py:215, 243
NoPartAt(item, content_index) ==
    ~item.hasContent \/ content_index >= Len(item.content)

\* _process_response_audio_transcript_delta, conversation.py:206-218
ProcessResponseAudioTranscriptDelta(id, content_index, delta) ==
    /\ IF id \notin DOMAIN item_lookup
       THEN /\ Processed("response.audio_transcript.delta", id, "NotFound", delta,
                         ConvState)
            /\ UNCHANGED item_lookup
       ELSE IF NoPartAt(item_lookup[id], content_index)
       THEN /\ Processed("response.audio_transcript.delta", id, "LookupError", delta, 0)
            /\ UNCHANGED item_lookup
       ELSE /\ Processed("response.audio_transcript.delta", id, "ok", delta, 0)
            /\ item_lookup' =
                   [item_lookup EXCEPT
                       ![id].content[content_index + 1].transcript = @ \o delta,
                       ![id].formatted.transcript = @ \o delta]
    /\ UNCHANGED <<items, response_lookup, responses, queued_speech_items,
                   queued_transcript_items, queued_input_audio>>
    /\ UNCHANGED nonConvVars

\* _process_response_text_delta, conversation.py:234-245
ProcessResponseTextDelta(id, content_index, delta) ==
    /\ IF id \notin DOMAIN item_lookup
       THEN /\ Processed("response.text.delta", id, "NotFound", delta, ConvState)
            /\ UNCHANGED item_lookup
       ELSE IF NoPartAt(item_lookup[id], content_index)
       THEN /\ Processed("response.text.delta", id, "LookupError", delta, 0)
            /\ UNCHANGED item_lookup
       ELSE /\ Processed("response.text.delta", id, "ok", delta, 0)
            /\ item_lookup' =
                   [item_lookup EXCEPT
                       ![id].content[content_index + 1].text = @ \o delta,
                       ![id].formatted.text = @ \o delta]
    /\ UNCHANGED <<items, response_lookup, responses, queued_speech_items,
                   queued_transcript_items, queued_input_audio>>
    /\ UNCHANGED nonConvVars

\* _process_response_function_call_arguments_delta, conversation.py:247-257; only
\* function_call items carry 'arguments' (line 255 raises KeyError on the
\* others), and line 256 raises KeyError, after line 255 has run, on an item
\* whose formatted view has no 'tool'
ProcessResponseFunctionCallArgumentsDelta(id, delta) ==
    /\ IF id \notin DOMAIN item_lookup
       THEN /\ Processed("response.function_call_arguments.delta", id, "NotFound", delta,
                         ConvState)
            /\ UNCHANGED item_lookup
       ELSE IF item_lookup[id].type # "function_call"
       THEN /\ Processed("response.function_call_arguments.delta", id, "KeyError", delta, 0)
            /\ UNCHANGED item_lookup
       ELSE IF ~item_lookup[id].formatted.hasTool
       THEN /\ Processed("response.function_call_arguments.delta", id, "KeyError", delta, 0)
            /\ item_lookup' = [item_lookup EXCEPT ![id].arguments = @ \o delta]
       ELSE /\ Processed("response.function_call_arguments.delta", id, "ok", delta, 0)
            /\ item_lookup' =
                   [item_lookup EXCEPT ![id].arguments = @ \o delta,
                                       ![id].formatted.toolArgs = @ \o delta]
    /\ UNCHANGED <<items, response_lookup, responses, queued_speech_items,
                   queued_transcript_items, queued_input_audio>>
    /\ UNCHANGED nonConvVars

\* the keys of self.event_processors, conversation.py:12-27
event_processors ==
    {"conversation.item.created", "conversation.item.truncated",
     "conversation.item.deleted",
     "conversation.item.input_audio_transcription.completed",
     "input_audio_buffer.speech_started", "input_audio_buffer.speech_stopped",
     "response.created", "response.output_item.added", "response.output_item.done",
     "response.content_part.added", "response.audio_transcript.delta",
     "response.audio.delta", "response.text.delta",
     "response.function_call_arguments.delta"}

\* events as process_event may receive them: with or without the keys
\* 'event_id' and 'type', of a handled type or not
RawEvents ==
    [hasEventId : BOOLEAN, hasType : BOOLEAN,
     type : {"input_audio_buffer.speech_started", "session.created"},
     item_id : {"X"}, audio_start_ms : {0}]

\* the test of conversation.py:44-47 left out: only the processor is looked up
Rejection_NoFieldCheck(event) ==
    IF event.type \notin event_processors THEN "MissingProcessor" ELSE "none"

\* how process_event rejects an event before any processor runs,
\* conversation.py:44-52; "none" when it does not
Rejection(event) ==
    IF ~event.hasEventId THEN "MissingEventId"
    ELSE IF ~event.hasType THEN "MissingType"
    ELSE IF event.type \notin event_processors THEN "MissingProcessor"
    ELSE "none"

\* process_event on any event, conversation.py:43-54
ProcessEvent(event) ==
    IF Rejection(event) # "none"
    THEN /\ Processed("process_event", event.item_id, Rejection(event), event, ConvState)
         /\ UNCHANGED <<item_lookup, items, response_lookup, responses,
                        queued_speech_items, queued_transcript_items,
                        queued_input_audio>>
         /\ UNCHANGED nonConvVars
    ELSE /\ Processed("process_event", event.item_id, "ok", event, ConvState)
         /\ SpeechStarted(event.item_id, event.audio_start_ms)

\* queue_input_audio, conversation.py:39-41; it is no event and is not counted
QueueInputAudio(input_audio) ==
    /\ queued_input_audio # input_audio
    /\ queued_input_audio' = input_audio
    /\ convLast' = [op |-> "queue_input_audio", id |-> "none", res |-> "ok",
                    arg |-> input_audio, pre |-> 0, gone |-> convLast.gone,
                    replay |-> convLast.replay]
    /\ UNCHANGED <<item_lookup, items, response_lookup, responses, queued_speech_items,
                   queued_transcript_items, convSteps>>
    /\ UNCHANGED nonConvVars

\* ------------------------------------------------------ event bus: data
EventNames == {"foo", "bar"}

\* the callbacks callers register: "h1" does not call the bus; "h2", when
\* invoked for an event, calls on_next(event name, "h1"); "h3", when invoked,
\* calls off_next(event name)
Callbacks == {"h1", "h2", "h3"}

\* the tasks that call wait_for_next; the handler closure of a task's call
\* (event_handler.py:55-58) goes by the task's name in the handler lists
Tasks == {"w1", "w2"}

\* the payloads of dispatched events
Payloads == {"p1", "p2"}

\* a task that is not in wait_for_next
Idle == [pc |-> "idle", name |-> "none", timed |-> FALSE, future |-> "none",
         result |-> "none"]

\* nothing has happened to a task's call: no dispatch of its name, its handler
\* not removed from the one-shot list, no timeout
NoHist == [first |-> "none", removed |-> FALSE, timedOut |-> FALSE]

\* the callback argument left out (None)
NoCallback == "None"

\* dict.get(event_name, []), event_handler.py:30, 41, 70, 74
HandlersOf(d, name) == IF name \in DOMAIN d THEN d[name] ELSE <<>>

\* the membership test of event_handler.py:32, 43 left out: remove and succeed
IsRegistered_Always(handlers, callback) == TRUE

\* callback in handlers, event_handler.py:32, 43
IsRegistered(handlers, callback) == \E i \in DOMAIN handlers : handlers[i] = callback

BusInit ==
    /\ event_handlers = <<>>
    /\ next_event_handlers = <<>>
    /\ waiters = [t \in Tasks |-> Idle]
    /\ waitHist = [t \in Tasks |-> NoHist]
    /\ busSteps = 0
    /\ busLast = [op |-> "none", name |-> "none", cb |-> NoCallback, res |-> "ok",
                  pre |-> [event_handlers |-> <<>>, next_event_handlers |-> <<>>]]

\* what every call records: the operation, its arguments, how it ended and the
\* two handler tables before it ran
Called(op, name, cb, res) ==
    /\ busSteps < MaxBusOps
    /\ busSteps' = busSteps + 1
    /\ busLast' = [op |-> op, name |-> name, cb |-> cb, res |-> res,
                   pre |-> [event_handlers |-> event_handlers,
                            next_event_handlers |-> next_event_handlers]]

\* -------------------------------------------------- event bus: methods
\* on, event_handler.py:17-21
On(name, callback) ==
    /\ event_handlers' =
           Put(event_handlers, name, Append(HandlersOf(event_handlers, name), callback))
    /\ Called("on", name, callback, "ok")
    /\ UNCHANGED <<next_event_handlers, waiters, waitHist>>
    /\ UNCHANGED nonBusVars

\* on_next, event_handler.py:23-27
OnNext(name, callback) ==
    /\ next_event_handlers' =
           Put(next_event_handlers, name,
               Append(HandlersOf(next_event_handlers, name), callback))
    /\ Called("on_next", name, callback, "ok")
    /\ UNCHANGED <<event_handlers, waiters, waitHist>>
    /\ UNCHANGED nonBusVars

\* the handler table d after off / off_next (name, callback) on it, and how the
\* call ends: event_handler.py:30-38, 41-49
Removal(d, name, callback) ==
    IF callback # NoCallback
    THEN IF IsRegistered(HandlersOf(d, name), callback)
         THEN [table |-> IF name \in DOMAIN d
                         THEN [d EXCEPT ![name] = RemoveFirst(@, callback)]
                         ELSE d,
               res |-> "ok"]
         ELSE [table |-> d, res |-> "NotFound"]
    ELSE [table |-> RemoveKey(d, name), res |-> "ok"]

\* off, event_handler.py:29-38
Off(name, callback) ==
    /\ event_handlers' = Removal(event_handlers, name, callback).table
    /\ Called("off", name, callback, Removal(event_handlers, name, callback).res)
    /\ UNCHANGED <<next_event_handlers, waiters, waitHist>>
    /\ UNCHANGED nonBusVars

\* the history of the waiting tasks after the one-shot table went from before
\* to after without invoking: a task whose handler left the table was removed
Unhooked(before, after) ==
    [t \in Tasks |->
        IF /\ waiters[t].pc = "waiting"
           /\ IsRegistered(HandlersOf(before, waiters[t].name), t)
           /\ ~IsRegistered(HandlersOf(after, waiters[t].name), t)
        THEN [waitHist[t] EXCEPT !.removed = TRUE]
        ELSE waitHist[t]]

\* off_next, event_handler.py:40-49
OffNext(name, callback) ==
    /\ next_event_handlers' = Removal(next_event_handlers, name, callback).table
    /\ Called("off_next", name, callback,
              Removal(next_event_handlers, name, callback).res)
    /\ waitHist' = Unhooked(next_event_handlers,
                            Removal(next_event_handlers, name, callback).table)
    /\ UNCHANGED <<event_handlers, waiters>>
    /\ UNCHANGED nonBusVars

\* the guard of set_result left out: the handler sets the result of a future
\* that is done already
FutureOpen_Always(future) == TRUE

\* not event_future.done(), event_handler.py:57
FutureOpen(future) == future = "pending"

\* handler(event), event_handler.py:72, 76: the handler tables and the futures of
\* the waiting tasks after the call of one handler
RunHandler(callback, name, event, st) ==
    CASE callback = "h2" ->
           [st EXCEPT !.neh = Put(@, name, Append(HandlersOf(@, name), "h1"))]
      [] callback = "h3" -> [st EXCEPT !.neh = RemoveKey(@, name)]
      [] callback \in Tasks ->
           IF FutureOpen(st.fut[callback])
           THEN [st EXCEPT !.fut[callback] = event]
           ELSE st
      [] OTHER -> st

\* for handler in handlers: handler(event), event_handler.py:71-72, 75-76
RECURSIVE RunHandlers(_, _, _, _)
RunHandlers(handlers, name, event, st) ==
    IF handlers = <<>> THEN st
    ELSE RunHandlers(Tail(handlers), name, event,
                     RunHandler(Head(handlers), name, event, st))

\* the list event_handler.py:70 copies
PersistentSnapshot(name) == HandlersOf(event_handlers, name)

\* the tables after the persistent handlers ran, event_handler.py:70-72
AfterPersistent(name, event) ==
    RunHandlers(PersistentSnapshot(name), name, event,
                [eh |-> event_handlers, neh |-> next_event_handlers,
                 fut |-> [t \in Tasks |-> waiters[t].future]])

\* event_handler.py:78-79 moved before the copy of line 74: the one-shot list
\* is deleted before it is copied
OneShotSnapshot_AfterDelete(name, event) == <<>>

\* the list event_handler.py:74 copies, after the persistent handlers ran
OneShotSnapshot(name, event) == HandlersOf(AfterPersistent(name, event).neh, name)

\* the tables after the one-shot handlers ran, event_handler.py:74-76
AfterOneShot(name, event) ==
    RunHandlers(OneShotSnapshot(name, event), name, event, AfterPersistent(name, event))

\* dispatch, event_handler.py:69-81; the call records the persistent and the
\* one-shot handlers it invoked, in order, and the one-shot list that
\* event_handler.py:78-79 delete
Dispatch(name, event) ==
    LET done == AfterOneShot(name, event)
    IN  /\ Called("dispatch", name, NoCallback,
                  [persistent |-> PersistentSnapshot(name),
                   one_shot |-> OneShotSnapshot(name, event),
                   discarded |-> HandlersOf(done.neh, name)])
        /\ event_handlers' = done.eh
        /\ next_event_handlers' = RemoveKey(done.neh, name)
        /\ waiters' = [t \in Tasks |-> [waiters[t] EXCEPT !.future = done.fut[t]]]
        /\ waitHist' =
               [t \in Tasks |->
                   IF waiters[t].pc = "waiting" /\ waiters[t].name = name
                   THEN [waitHist[t] EXCEPT
                            !.first = IF @ = "none" THEN event ELSE @,
                            !.removed =
                                \/ @
                                \/ /\ IsRegistered(HandlersOf(next_event_handlers, name), t)
                                   /\ ~IsRegistered(
                                          HandlersOf(AfterPersistent(name, event).neh,
                                                     name), t)]
                   ELSE waitHist[t]]
        /\ UNCHANGED nonBusVars

\* clear_event_handlers, event_handler.py:12-15
ClearEventHandlers ==
    /\ event_handlers' = <<>>
    /\ next_event_handlers' = <<>>
    /\ Called("clear_event_handlers", "none", NoCallback, "ok")
    /\ waitHist' = Unhooked(next_event_handlers, <<>>)
    /\ UNCHANGED waiters
    /\ UNCHANGED nonBusVars

\* wait_for_next up to its await, event_handler.py:51-63: the task creates its
\* future, registers its handler with on_next and is suspended
WaitForNext(t, name, timed) ==
    /\ waiters[t].pc = "idle"
    /\ waiters' = [waiters EXCEPT ![t] = [pc |-> "waiting", name |-> name,
                                          timed |-> timed, future |-> "pending",
                                          result |-> "none"]]
    /\ next_event_handlers' =
           Put(next_event_handlers, name, Append(HandlersOf(next_event_handlers, name), t))
    /\ waitHist' = [waitHist EXCEPT ![t] = NoHist]
    /\ Called("wait_for_next", name, t, "ok")
    /\ UNCHANGED event_handlers
    /\ UNCHANGED nonBusVars

\* the timeout of asyncio.wait_for elapses while the future is pending: the
\* future is cancelled and wait_for_next returns None, event_handler.py:63-67
WaitTimeout(t) ==
    /\ waiters[t].pc = "waiting"
    /\ waiters[t].timed
    /\ waiters[t].future = "pending"
    /\ waiters' = [waiters EXCEPT ![t].pc = "returned", ![t].future = "cancelled",
                                  ![t].result = "None"]
    /\ waitHist' = [waitHist EXCEPT ![t].timedOut = TRUE]
    /\ UNCHANGED <<event_handlers, next_event_handlers, busSteps, busLast>>
    /\ UNCHANGED nonBusVars

\* the task is resumed with the result of its future and wait_for_next
\* returns it, event_handler.py:63, 67
WaitReturn(t) ==
    /\ waiters[t].pc = "waiting"
    /\ waiters[t].future \in Payloads
    /\ waiters' = [waiters EXCEPT ![t].pc = "returned", ![t].result = waiters[t].future]
    /\ UNCHANGED <<event_handlers, next_event_handlers, busSteps, busLast, waitHist>>
    /\ UNCHANGED nonBusVars

\* --------------------------------------------------- transport: data
\* the tasks that call connect
Callers == {"a", "b"}

\* the event names passed to send and the type fields of inbound frames
SendNames == {"response.create"}
FrameTypes == {"t1", "t2"}

\* what an inbound frame is: a JSON object with a type, a JSON object without
\* one, a text json.loads rejects
InboundKinds == {"typed", "untyped", "badjson"}

\* the data argument of send: None (the default), {}, a dictionary, [], a
\* non-empty list
DataValues == {"None", "EmptyDict", "Dict", "EmptyList", "List"}

\* bool(data) is False: data or {} is {}, api.py:73
Falsy(data) == data \in {"None", "EmptyDict", "EmptyList"}

\* isinstance(data, dict), api.py:74
IsDict(data) == data \in {"EmptyDict", "Dict"}

\* how a socket the transport opened can be: open, closed by the remote side
\* with a normal close code (1000, 1001), closed by the remote side abnormally,
\* closed by ws.close() of this side
SockStates == {"open", "remote_ok", "remote_err", "local"}

\* self.ws is not None and self.ws.open, api.py:23-24
is_connected == ws # 0 /\ socks[ws] = "open"

\* what every step records of the state before it
ApiSeen ==
    [ws |-> ws, connected |-> is_connected, socks |-> socks, listeners |-> listeners,
     nWire |-> Len(wire), nEvents |-> Len(apiEvents)]

ApiInit ==
    /\ ws = 0
    /\ socks = <<>>
    /\ listeners = <<>>
    /\ connPc = [c \in Callers |-> "idle"]
    /\ wire = <<>>
    /\ apiEvents = <<>>
    /\ nextEventId = 0
    /\ arrived = <<>>
    /\ apiSteps = 0
    /\ apiLast = [op |-> "none", res |-> "ok", arg |-> "none", pre |-> 0]

\* a call, an inbound frame or a close: what it was and how it ended
ApiStep(op, res, arg) ==
    /\ apiSteps < MaxApiOps
    /\ apiSteps' = apiSteps + 1
    /\ apiLast' = [op |-> op, res |-> res, arg |-> arg, pre |-> ApiSeen]

\* a step of a task that is under way
ApiResume(op, res, arg) ==
    /\ apiLast' = [op |-> op, res |-> res, arg |-> arg, pre |-> ApiSeen]
    /\ UNCHANGED apiSteps

\* self.dispatch(name, event) on a bus without handlers, event_handler.py:69-81
ApiDispatched(name, error, sock) ==
    Append(apiEvents, [name |-> name, error |-> error, sock |-> sock])

\* ------------------------------------------------ transport: methods
\* connect up to the await of api.py:43: the call fails when connected, else
\* the caller is suspended in the handshake
Connect(c) ==
    /\ connPc[c] = "idle"
    /\ IF is_connected
       THEN /\ ApiStep("connect", "ConnectionError", c)
            /\ UNCHANGED connPc
       ELSE /\ ApiStep("connect", "pending", c)
            /\ connPc' = [connPc EXCEPT ![c] = "handshake"]
    /\ UNCHANGED <<ws, socks, listeners, wire, apiEvents, nextEventId, arrived>>
    /\ UNCHANGED nonApiVars

\* the handshake ends, api.py:43-52: on success the socket is stored and a
\* _listen task is created; on failure self.ws is set to None
ConnectDone(c, ok) ==
    /\ connPc[c] = "handshake"
    /\ connPc' = [connPc EXCEPT ![c] = "idle"]
    /\ IF ok
       THEN /\ socks' = Append(socks, "open")
            /\ ws' = Len(socks) + 1
            /\ listeners' = Append(listeners, [state |-> "created", sock |-> 0])
            /\ ApiResume("handshake", "ok", c)
       ELSE /\ ws' = 0
            /\ ApiResume("handshake", "ConnectionError", c)
            /\ UNCHANGED <<socks, listeners>>
    /\ UNCHANGED <<wire, apiEvents, nextEventId, arrived>>
    /\ UNCHANGED nonApiVars

\* a _listen task runs for the first time, api.py:55-56: it iterates the socket
\* self.ws holds then; async for over None raises TypeError
ListenStart(l) ==
    /\ listeners[l].state = "created"
    /\ IF ws = 0
       THEN /\ listeners' = [listeners EXCEPT ![l].state = "TypeError"]
            /\ ApiResume("listen_start", "TypeError", l)
       ELSE /\ listeners' = [listeners EXCEPT ![l] = [state |-> "running", sock |-> ws]]
            /\ ApiResume("listen_start", "ok", l)
    /\ UNCHANGED <<ws, socks, connPc, wire, apiEvents, nextEventId, arrived>>
    /\ UNCHANGED nonApiVars

\* self.receive is defined neither by RealtimeAPI nor by RealtimeEventHandler:
\* api.py:67 raises AttributeError
ReceiveDefined == FALSE

\* a frame arrives on the socket a _listen task iterates, api.py:56-58, 64-67;
\* _listen catches ConnectionClosed only, any other exception ends the task
Inbound(l, kind, type) ==
    /\ listeners[l].state = "running"
    /\ socks[listeners[l].sock] = "open"
    /\ CASE kind = "badjson" ->
              /\ listeners' = [listeners EXCEPT ![l].state = "JSONDecodeError"]
              /\ ApiStep("inbound", "JSONDecodeError", [listener |-> l, kind |-> kind])
              /\ UNCHANGED <<arrived, apiEvents>>
         [] kind = "untyped" ->
              /\ ApiStep("inbound", "ok", [listener |-> l, kind |-> kind])
              /\ UNCHANGED <<listeners, arrived, apiEvents>>
         [] kind = "typed" ->
              /\ arrived' = Append(arrived, type)
              /\ IF ReceiveDefined
                 THEN /\ apiEvents' = ApiDispatched(type, FALSE, listeners[l].sock)
                      /\ ApiStep("inbound", "ok", [listener |-> l, kind |-> kind])
                      /\ UNCHANGED listeners
                 ELSE /\ listeners' = [listeners EXCEPT ![l].state = "AttributeError"]
                      /\ ApiStep("inbound", "AttributeError",
                                 [listener |-> l, kind |-> kind])
                      /\ UNCHANGED apiEvents
    /\ UNCHANGED <<ws, socks, connPc, wire, nextEventId>>
    /\ UNCHANGED nonApiVars

\* the remote side closes an open socket, with a normal close code or not
RemoteClose(sock, normal) ==
    /\ sock \in DOMAIN socks
    /\ socks[sock] = "open"
    /\ socks' = [socks EXCEPT ![sock] = IF normal THEN "remote_ok" ELSE "remote_err"]
    /\ ApiStep("remote_close", "ok", sock)
    /\ UNCHANGED <<ws, listeners, connPc, wire, apiEvents, nextEventId, arrived>>
    /\ UNCHANGED nonApiVars

\* the result of self.dispatch(...) is True, event_handler.py:81, and api.py:61,
\* 93 await it: await True raises TypeError after the dispatch has run
AwaitDispatchRaises == TRUE

\* a _listen task finds its socket closed, api.py:56-62: the iteration of a
\* socket closed with a normal code (or by ws.close() of this side) ends
\* without exception; an abnormal close raises ConnectionClosed, api.py:59
ListenClosed(l) ==
    /\ listeners[l].state = "running"
    /\ socks[listeners[l].sock] # "open"
    /\ IF socks[listeners[l].sock] = "remote_err"
       THEN /\ apiEvents' = ApiDispatched("close", TRUE, listeners[l].sock)
            /\ IF AwaitDispatchRaises
               THEN /\ listeners' = [listeners EXCEPT ![l].state = "TypeError"]
                    /\ ApiResume("listen_closed", "TypeError", l)
                    /\ UNCHANGED ws
               ELSE /\ listeners' = [listeners EXCEPT ![l].state = "ended"]
                    /\ ApiResume("listen_closed", "ok", l)
                    /\ ws' = 0
       ELSE /\ listeners' = [listeners EXCEPT ![l].state = "ended"]
            /\ ApiResume("listen_closed", "ok", l)
            /\ UNCHANGED <<ws, apiEvents>>
    /\ UNCHANGED <<socks, connPc, wire, nextEventId, arrived>>
    /\ UNCHANGED nonApiVars

\* f"client.{event_name}", api.py:84
ClientEvent(name) == CASE name = "response.create" -> "client.response.create"

\* the test of api.py:74 on the value api.py:73 leaves in data
DataRejected(data) == ~Falsy(data) /\ ~IsDict(data)

\* send, api.py:69-86
Send(name, data) ==
    /\ IF ~is_connected
       THEN /\ ApiStep("send", "ConnectionError", data)
            /\ UNCHANGED <<wire, apiEvents, nextEventId>>
       ELSE IF DataRejected(data)
       THEN /\ ApiStep("send", "ValueError", data)
            /\ UNCHANGED <<wire, apiEvents, nextEventId>>
       ELSE /\ ApiStep("send", "ok", data)
            /\ nextEventId' = nextEventId + 1
            /\ wire' = Append(wire, [sock |-> ws, event_id |-> nextEventId + 1,
                                     type |-> name])
            /\ apiEvents' = ApiDispatched(ClientEvent(name), FALSE, ws)
    /\ UNCHANGED <<ws, socks, listeners, connPc, arrived>>
    /\ UNCHANGED nonApiVars

\* disconnect, api.py:88-95
Disconnect ==
    /\ IF ws # 0
       THEN /\ socks' = [socks EXCEPT ![ws] = IF @ = "open" THEN "local" ELSE @]
            /\ ws' = 0
            /\ apiEvents' = ApiDispatched("close", FALSE, ws)
            /\ ApiStep("disconnect", IF AwaitDispatchRaises THEN "TypeError" ELSE "True",
                       "none")
       ELSE /\ ApiStep("disconnect", "False", "none")
            /\ UNCHANGED <<ws, socks, apiEvents>>
    /\ UNCHANGED <<listeners, connPc, wire, nextEventId, arrived>>
    /\ UNCHANGED nonApiVars

\* ------------------------------------------------------- client: data
ToolNames == {"get_weather"}

\* session_config["turn_detection"]: None, a dict without "type", the
\* server VAD dict of client.py:79-84
TurnDetections == {"None", "NoType", "server_vad"}

\* an argument of update_session left at its default None
NotGiven == "NotGiven"

\* the tools argument of update_session: None, or a list of definitions
NoTools == [given |-> FALSE, defs |-> <<>>]
ToolArgs == {NoTools} \cup {[given |-> TRUE, defs |-> d] :
                              d \in {<<>>} \cup {<<t>> : t \in ToolNames}}

\* the calls of update_session: voice, turn_detection, tools
UpdateCalls ==
    {[voice |-> "echo", turn_detection |-> NotGiven, tools |-> NoTools],
     [voice |-> NotGiven, turn_detection |-> "NoType", tools |-> NoTools],
     [voice |-> NotGiven, turn_detection |-> "server_vad", tools |-> NoTools]}
    \cup {[voice |-> NotGiven, turn_detection |-> NotGiven, tools |-> t] :
            t \in ToolArgs \ {NoTools}}

\* buffers passed to append_input_audio
ClientBuffers == {<<>>, <<1, 2>>, <<3, 4>>}

\* the id argument of cancel_response; "None" is no id
CancelIds == {"None", "X"}

\* the sample_count argument of cancel_response
SampleCounts == {24, 24024}

\* the items the client's aggregator is told of
ClientItems ==
    {EventItem("X", "message", "assistant", TRUE,
               <<Part("text", <<>>), Part("audio", <<>>)>>),
     EventItem("X", "message", "assistant", TRUE, <<Part("text", <<>>)>>),
     EventItem("X", "message", "user", TRUE, <<Part("input_audio", <<>>)>>),
     EventItem("X", "function_call", "none", FALSE, <<>>)}

\* the fields of default_session_config the calls above can change,
\* client.py:62-74
default_session_config ==
    [voice |-> "alloy", turn_detection |-> "None", tools |-> <<>>]

\* one call of self.realtime.send
Command(type, data) == [type |-> type, data |-> data]

\* send(name) with no data
NoData == [none |-> TRUE]

\* __init__ and _reset_config, client.py:54-105
ClientInit ==
    /\ session_config = default_session_config
    /\ tools = <<>>
    /\ input_audio_buffer = <<>>
    /\ realtimeConnected = FALSE
    /\ sendTasks = <<>>
    /\ nTasks = 0
    /\ clientWire = <<>>
    /\ clientSteps = 0
    /\ clientLast = [op |-> "none", arg |-> 0, res |-> "ok", sent |-> <<>>, pre |-> 0]
    /\ appendedSince = <<>>

\* ---------------------------------------------------- client: methods
\* session_config, tools and input_audio_buffer
ClientState ==
    [session_config |-> session_config, tools |-> tools,
     input_audio_buffer |-> input_audio_buffer]

\* asyncio.create_task(self.realtime.send(...)) for each command, in order
Scheduled(sends) ==
    [i \in 1..Len(sends) |->
        [n |-> nTasks + i, type |-> sends[i].type, data |-> sends[i].data]]

\* what every call records: its name, its argument, how it ended, the sends it
\* scheduled and the state before it
ClientCalled(op, arg, res, sends) ==
    /\ clientSteps < MaxClientOps
    /\ clientSteps' = clientSteps + 1
    /\ clientLast' = [op |-> op, arg |-> arg, res |-> res, sent |-> sends,
                      pre |-> ClientState]
    /\ sendTasks' = sendTasks \o Scheduled(sends)
    /\ nTasks' = nTasks + Len(sends)

InList(list, v) == \E i \in 1..Len(list) : list[i] = v

\* session_config after the assignments of client.py:179-200
AssignedConfig(call) ==
    [voice |-> IF call.voice # NotGiven THEN call.voice ELSE session_config.voice,
     turn_detection |-> IF call.turn_detection # NotGiven THEN call.turn_detection
                        ELSE session_config.turn_detection,
     tools |-> IF call.tools.given THEN call.tools.defs ELSE session_config.tools]

\* the loop of client.py:204-208 meets a definition whose name is registered
AlreadyDefined(defs, registered) ==
    \E i \in 1..Len(defs) : InList(registered, defs[i])

\* client.py:202-215 with the tools registered: the command, if connected
SessionUpdate(config, defs, registered) ==
    IF realtimeConnected
    THEN <<Command("session.update",
                   [session |-> [config EXCEPT !.tools = defs \o registered]])>>
    ELSE <<>>

\* update_session, client.py:162-216
UpdateSession(call) ==
    /\ session_config' = AssignedConfig(call)
    /\ IF AlreadyDefined(call.tools.defs, tools)
       THEN ClientCalled("update_session", call, "ValueError", <<>>)
       ELSE ClientCalled("update_session", call, "True",
                         SessionUpdate(AssignedConfig(call), call.tools.defs, tools))
    /\ UNCHANGED <<tools, input_audio_buffer, realtimeConnected, clientWire,
                   appendedSince>>
    /\ UNCHANGED nonClientVars

\* add_tool with a callable handler, client.py:129-144
AddTool(name) ==
    /\ IF InList(tools, name)
       THEN /\ ClientCalled("add_tool", name, "ValueError", <<>>)
            /\ UNCHANGED tools
       ELSE /\ tools' = Append(tools, name)
            /\ ClientCalled("add_tool", name, "ok",
                            SessionUpdate(session_config, <<>>, Append(tools, name)))
    /\ UNCHANGED <<session_config, input_audio_buffer, realtimeConnected, clientWire,
                   appendedSince>>
    /\ UNCHANGED nonClientVars

\* append_input_audio, client.py:239-249
AppendInputAudio(array_buffer) ==
    /\ IF Len(array_buffer) > 0
       THEN /\ ClientCalled("append_input_audio", array_buffer, "True",
                            <<Command("input_audio_buffer.append",
                                      [audio |-> array_buffer_to_base64(array_buffer)])>>)
            /\ input_audio_buffer' = input_audio_buffer \o array_buffer
            /\ appendedSince' = appendedSince \o array_buffer
       ELSE /\ ClientCalled("append_input_audio", array_buffer, "True", <<>>)
            /\ UNCHANGED <<input_audio_buffer, appendedSince>>
    /\ UNCHANGED <<session_config, tools, realtimeConnected, clientWire>>
    /\ UNCHANGED nonClientVars

\* session_config.get("turn_detection", {}) is None when the key holds None,
\* as in the default configuration, and None has no get: AttributeError,
\* client.py:127
TurnDetectionRaises == session_config.turn_detection = "None"

\* get_turn_detection_type when it returns, client.py:123-127
get_turn_detection_type ==
    IF session_config.turn_detection = "server_vad" THEN "server_vad" ELSE "None"

\* create_response, client.py:251-260, with queue_input_audio of
\* conversation.py:39-41
CreateResponse ==
    /\ IF TurnDetectionRaises
       THEN /\ ClientCalled("create_response", 0, "AttributeError", <<>>)
            /\ UNCHANGED <<input_audio_buffer, appendedSince, queued_input_audio,
                           convLast>>
       ELSE IF get_turn_detection_type = "None" /\ Len(input_audio_buffer) > 0
       THEN /\ ClientCalled("create_response", 0, "True",
                            <<Command("input_audio_buffer.commit", NoData),
                              Command("response.create", NoData)>>)
            /\ queued_input_audio' = input_audio_buffer
            /\ convLast' = [op |-> "queue_input_audio", id |-> "none", res |-> "ok",
                            arg |-> input_audio_buffer, pre |-> 0,
                            gone |-> convLast.gone, replay |-> convLast.replay]
            /\ input_audio_buffer' = <<>>
            /\ appendedSince' = <<>>
       ELSE /\ ClientCalled("create_response", 0, "True",
                            <<Command("response.create", NoData)>>)
            /\ UNCHANGED <<input_audio_buffer, appendedSince, queued_input_audio,
                           convLast>>
    /\ UNCHANGED <<session_config, tools, realtimeConnected, clientWire>>
    /\ UNCHANGED <<item_lookup, items, response_lookup, responses, queued_speech_items,
                   queued_transcript_items, convSteps>>
    /\ UNCHANGED nonClientConvVars

\* the index of the first content part of type "audio", -1 without one,
\* client.py:280-283
AudioIndex(item) ==
    LET content == IF item.hasContent THEN item.content ELSE <<>>
        at == {i \in 1..Len(content) : content[i].type = "audio"}
    IN  IF at = {} THEN -1
        ELSE (CHOOSE i \in at : \A j \in at : i <= j) - 1

\* the sample counts of SampleCounts for which the double
\* sample_count / 24000, times 1000, lies just below the whole number of
\* milliseconds: 24024 / 24000 * 1000 is 1000.9999999999999
DoubleFallsShort(sample_count) == sample_count \in {24024}

\* int((sample_count / self.conversation.default_frequency) * 1000) in
\* double arithmetic, client.py:287
AudioEndMs(sample_count) ==
    LET whole == (sample_count * 1000) \div default_frequency
    IN  IF DoubleFallsShort(sample_count) THEN whole - 1 ELSE whole

\* the checks of client.py:270-276 on the item of an id
CancelRejected(id) ==
    \/ id \notin DOMAIN item_lookup
    \/ item_lookup[id].type # "message"
    \/ item_lookup[id].role # "assistant"

\* what self.conversation.get_item(id) returns, client.py:270
GetItem(id) ==
    IF id \in DOMAIN item_lookup
    THEN [found |-> TRUE, type |-> item_lookup[id].type, role |-> item_lookup[id].role,
          content |-> item_lookup[id].content]
    ELSE [found |-> FALSE, type |-> "none", role |-> "none", content |-> <<>>]

\* cancel_response, client.py:262-295
CancelResponse(id, sample_count) ==
    LET arg == [id |-> id, sample_count |-> sample_count, item |-> GetItem(id)]
        cancel == Command("response.cancel", NoData)
    IN  /\ IF id = "None"
           THEN ClientCalled("cancel_response", arg, "ok", <<cancel>>)
           ELSE IF CancelRejected(id)
           THEN ClientCalled("cancel_response", arg, "ValueError", <<>>)
           ELSE IF AudioIndex(item_lookup[id]) = -1
           THEN ClientCalled("cancel_response", arg, "ValueError", <<cancel>>)
           ELSE ClientCalled("cancel_response", arg, "ok",
                    <<cancel,
                      Command("conversation.item.truncate",
                              [item_id |-> id,
                               content_index |-> AudioIndex(item_lookup[id]),
                               audio_end_ms |-> AudioEndMs(sample_count)])>>)
        /\ UNCHANGED <<session_config, tools, input_audio_buffer, realtimeConnected,
                       clientWire, appendedSince>>
        /\ UNCHANGED nonClientVars

\* the oldest send task runs, api.py:69-86: the command goes to the socket,
\* or the task ends with ConnectionError, which nobody retrieves
SendTaskRun ==
    /\ sendTasks # <<>>
    /\ sendTasks' = Tail(sendTasks)
    /\ clientWire' = IF realtimeConnected THEN Append(clientWire, Head(sendTasks))
                     ELSE clientWire
    /\ UNCHANGED <<session_config, tools, input_audio_buffer, realtimeConnected, nTasks,
                   clientSteps, clientLast, appendedSince>>
    /\ UNCHANGED nonClientVars

\* self.realtime.connect() completes, api.py:26-47
RealtimeConnect ==
    /\ ~realtimeConnected
    /\ realtimeConnected' = TRUE
    /\ UNCHANGED <<session_config, tools, input_audio_buffer, sendTasks, nTasks,
                   clientWire, clientSteps, clientLast, appendedSince>>
    /\ UNCHANGED nonClientVars

\* self.realtime.disconnect(), api.py:88-95
RealtimeDisconnect ==
    /\ realtimeConnected
    /\ realtimeConnected' = FALSE
    /\ UNCHANGED <<session_config, tools, input_audio_buffer, sendTasks, nTasks,
                   clientWire, clientSteps, clientLast, appendedSince>>
    /\ UNCHANGED nonClientVars

\* ------------------------------------------------------ specifications
Init == RelayInit /\ ConvInit /\ BusInit /\ ApiInit /\ CodecIdle /\ ClientInit

Next ==
    \/ \E k \in FrameKinds, p \in MediaPayloads : RecvFrame(k, p)
    \/ \E r \in BOOLEAN : RecvAppendDone(r)
    \/ \E r \in BOOLEAN : RecvCancelDone(r)
    \/ RecvCloseDone
    \/ \E e \in BOOLEAN : RecvDisconnect(e)
    \/ RecvCloseDiscDone
    \/ \E k \in AiEventKinds, p \in DeltaPayloads : AiEvent(k, p)
    \/ \E r \in BOOLEAN : SendCancelDone(r)
    \/ SendFwdDone
    \/ SendLoopEnd
    \/ AiRemoteClose
    \/ TwilioClose

Spec == Init /\ [][Next]_vars

\* the relay on the frames and events that drive the two flags: caller audio
\* and the end of the call, the voice-activity events, audio deltas and
\* response.done
TurnFrames == {"media", "stop"}

TurnEvents == {"speech_started", "speech_stopped", "delta", "delta_empty",
               "response.done"}

NextTurns ==
    \/ \E k \in TurnFrames : RecvFrame(k, "p1")
    \/ \E r \in BOOLEAN : RecvAppendDone(r)
    \/ \E r \in BOOLEAN : RecvCancelDone(r)
    \/ RecvCloseDone
    \/ \E e \in BOOLEAN : RecvDisconnect(e)
    \/ RecvCloseDiscDone
    \/ \E k \in TurnEvents, p \in DeltaPayloads : AiEvent(k, p)
    \/ \E r \in BOOLEAN : SendCancelDone(r)
    \/ SendFwdDone
    \/ SendLoopEnd
    \/ AiRemoteClose
    \/ TwilioClose

SpecTurns == Init /\ [][NextTurns]_vars

\* the aggregator: process_event on well-formed events of the handled types
NextConv ==
    \/ \E it \in EventItems : ProcessItemCreated(it)
    \/ \E id \in ItemIds, ms \in TruncateOffsets : ProcessItemTruncated(id, ms)
    \/ \E id \in ItemIds : ProcessItemDeleted(id)
    \/ \E id \in ItemIds, i \in {0, 1}, t \in Transcripts :
           ProcessTranscriptionCompleted(id, i, t)
    \/ \E id \in ItemIds, ms \in SpeechStarts : ProcessSpeechStarted(id, ms)
    \/ \E id \in ItemIds, ms \in SpeechEnds, b \in InputBuffers :
           ProcessSpeechStopped(id, ms, b)
    \/ \E id \in ResponseIds : ProcessResponseCreated(id)
    \/ \E r \in ResponseIds, id \in ItemIds : ProcessResponseOutputItemAdded(r, id)
    \/ \E id \in ItemIds, d \in AudioDeltas : ProcessResponseAudioDelta(id, d)
    \/ \E b \in PendingAudio : QueueInputAudio(b)

SpecConv == Init /\ [][NextConv]_vars

\* the aggregator: process_event on any event, and the events that refer to an
\* item or a response by identifier
NextEvents ==
    \/ \E ev \in RawEvents : ProcessEvent(ev)
    \/ \E it \in EventItems : ProcessItemCreated(it)
    \/ \E id \in ResponseIds : ProcessResponseCreated(id)
    \/ \E id \in ItemIds : ProcessTranscriptionCompleted(id, 0, <<"hi">>)
    \/ QueueInputAudio(<<7, 8>>)
    \/ \E id \in ItemIds : ProcessItemTruncated(id, 1)
    \/ \E id \in ItemIds : ProcessItemDeleted(id)
    \/ \E r \in ResponseIds : ProcessResponseOutputItemAdded(r, "X")
    \/ \E h \in BOOLEAN, id \in ItemIds :
           ProcessResponseOutputItemDone(h, id, "completed")
    \/ \E id \in ItemIds : ProcessResponseContentPartAdded(id, Part("text", <<>>))
    \/ \E id \in ItemIds : ProcessResponseAudioTranscriptDelta(id, 0, <<"a">>)
    \/ \E id \in ItemIds : ProcessResponseAudioDelta(id, array_buffer_to_base64(DeltaChunk))
    \/ \E id \in ItemIds : ProcessResponseTextDelta(id, 0, <<"b">>)
    \/ \E id \in ItemIds : ProcessResponseFunctionCallArgumentsDelta(id, <<"c">>)

SpecEvents == Init /\ [][NextEvents]_vars

\* the event bus
NextBus ==
    \/ \E n \in EventNames, h \in Callbacks : On(n, h)
    \/ \E n \in EventNames, h \in Callbacks : OnNext(n, h)
    \/ \E n \in EventNames, h \in Callbacks \cup {NoCallback} : Off(n, h)
    \/ \E n \in EventNames, h \in Callbacks \cup {NoCallback} : OffNext(n, h)
    \/ \E n \in EventNames, e \in Payloads : Dispatch(n, e)
    \/ ClearEventHandlers

SpecBus == Init /\ [][NextBus]_vars

\* tasks in wait_for_next on a bus whose events are dispatched and whose
\* one-shot handlers are removed
NextWait ==
    \/ \E t \in Tasks, n \in EventNames, timed \in BOOLEAN : WaitForNext(t, n, timed)
    \/ \E t \in Tasks : WaitTimeout(t)
    \/ \E t \in Tasks : WaitReturn(t)
    \/ \E n \in EventNames, e \in Payloads : Dispatch(n, e)
    \/ \E n \in EventNames : OffNext(n, NoCallback)
    \/ ClearEventHandlers

SpecWait == Init /\ [][NextWait]_vars

\* the session transport
NextApi ==
    \/ \E c \in Callers : Connect(c)
    \/ \E c \in Callers, ok \in BOOLEAN : ConnectDone(c, ok)
    \/ \E l \in DOMAIN listeners : ListenStart(l)
    \/ \E l \in DOMAIN listeners, k \in InboundKinds, t \in FrameTypes : Inbound(l, k, t)
    \/ \E sock \in DOMAIN socks, normal \in BOOLEAN : RemoteClose(sock, normal)
    \/ \E l \in DOMAIN listeners : ListenClosed(l)
    \/ \E n \in SendNames, d \in DataValues : Send(n, d)
    \/ Disconnect

SpecApi == Init /\ [][NextApi]_vars

\* the codec on every buffer of the bound
InitCodec == RelayInit /\ ConvInit /\ BusInit /\ ApiInit /\ CodecInit /\ ClientInit

NextCodec ==
    \/ Encode
    \/ Decode

SpecCodec == InitCodec /\ [][NextCodec]_vars

\* the client, the socket session under it and the events its aggregator is
\* handed
NextClient ==
    \/ \E it \in ClientItems : item_lookup = <<>> /\ ProcessItemCreated(it)
    \/ \E call \in UpdateCalls : UpdateSession(call)
    \/ \E name \in ToolNames : AddTool(name)
    \/ \E b \in ClientBuffers : AppendInputAudio(b)
    \/ CreateResponse
    \/ \E id \in CancelIds, n \in SampleCounts : CancelResponse(id, n)
    \/ SendTaskRun
    \/ RealtimeConnect
    \/ RealtimeDisconnect

SpecClient == Init /\ [][NextClient]_vars

\* ------------------------------------------------------- relay: claims
\* frames of type t written to openai_ws since the test of main.py:97 passed
SentSinceCheck(t) == CountFrom(aiSent, frameCheckAt, t)

\* response.cancel frames written to openai_ws since the last audio delta
CancelsSinceDelta ==
    CountFrom(aiSent, IF lastDeltaAt < 0 THEN 0 ELSE lastDeltaAt, "response.cancel")

\* C1: when a caller media frame has been processed with both flags true (the
\* test of main.py:97 passed) and the loop is ready for the next caller frame,
\* exactly one response.cancel has been emitted since that test and, if an
\* in-progress assistant item with audio existed, exactly one
\* conversation.item.truncate.
C1_CancelAndTruncateOnce ==
    (recvPc = "iter" /\ frameCheckAt >= 0) =>
        /\ SentSinceCheck("response.cancel") = 1
        /\ frameItemAudio => SentSinceCheck("conversation.item.truncate") = 1

\* C2: between one audio delta and the next the relay emits at most one
\* response.cancel, whichever of the two paths fires first.
C2_OneCancelPerInterruption == CancelsSinceDelta <= 1

\* C3: once a relay loop has terminated, the socket of the other loop is closed.
C3_OtherSocketClosed ==
    /\ recvPc = "done" => ~aiOpen
    /\ sendPc = "done" => ~twOpen

\* C4: once a stop frame has been processed the AI socket is closed and no
\* further caller frame is processed.
C4_StopEndsCallerLoop == stopSeen => (~aiOpen /\ framesAfterStop = 0)

\* C23: once send_to_twilio has finished with a speech_started event,
\* user_speaking is true and ai_generating_response is false, and the handler
\* wrote a response.cancel exactly if ai_generating_response was true when the
\* event arrived; once it has finished with a speech_stopped event,
\* user_speaking is false and ai_generating_response is as it was
C23_SpeechEventsSetFlags ==
    /\ (sendLast.kind = "speech_started" /\ sendLast.ended = "ok") =>
          /\ sendLast.userAfter
          /\ ~sendLast.generatingAfter
          /\ sendLast.generating =>
                /\ sendLast.wrote
                /\ aiSent[sendLast.sentBefore + 1].type = "response.cancel"
          /\ ~sendLast.generating => ~sendLast.wrote
    /\ (sendLast.kind = "speech_stopped" /\ sendLast.ended = "ok") =>
          /\ ~sendLast.userAfter
          /\ sendLast.generatingAfter = sendLast.generating
          /\ ~sendLast.wrote

\* a speech_started event that met the flag set has been processed to its end
C23_Witness ==
    /\ sendLast.kind = "speech_started"
    /\ sendLast.ended = "ok"
    /\ sendLast.generating
    /\ sendPc = "iter"

C25_FrameForwardedThenCancel ==
    (recvLast.kind = "media" /\ recvLast.aiOpen) =>
        /\ aiSent[recvLast.sentBefore + 1] = AppendMsg(recvLast.payload)
        /\ frameCheckAt # -1 => frameCheckAt >= recvLast.sentBefore + 1
        /\ (recvLast.user /\ recvLast.generating /\ recvLast.ended = "ok") =>
              ~recvLast.generatingAfter

\* -------------------------------------------------- aggregator: claims
\* the identifiers of an ordered list
ListIds(l) == {l[i] : i \in DOMAIN l}

\* the samples [lo, hi) of a PCM16 buffer
SampleSlice(b, lo, hi) == PySlice(b, lo * BytesPerSample, hi * BytesPerSample)

\* C5: after any sequence of events, duplicates of conversation.item.created
\* included, the item lookup and the ordered item list hold exactly one entry
\* per distinct identifier.
C5_OneEntryPerItemId ==
    /\ ListIds(items) = DOMAIN item_lookup
    /\ Len(items) = Cardinality(DOMAIN item_lookup)

\* a conversation.item.created for an identifier already in the collection was
\* processed while another item is in the collection too
C5_Witness ==
    /\ convLast.op = "item.created"
    /\ ~convLast.pre.isNew
    /\ Len(items) = 2

\* C6: conversation.item.truncated with audio_end_ms = T on an existing item
\* whose audio held at least floor(T * 24000 / 1000) samples leaves exactly that
\* many samples in the formatted audio, and clears the formatted transcript.
C6_TruncateKeepsSamples ==
    (/\ convLast.op = "item.truncated"
     /\ convLast.res = "ok"
     /\ SampleCount(convLast.pre) >= MsToIndex(convLast.arg)) =>
        /\ SampleCount(item_lookup[convLast.id].formatted.audio) = MsToIndex(convLast.arg)
        /\ item_lookup[convLast.id].formatted.transcript = <<>>

\* C7: a transcription-completed event for an identifier without an item is
\* queued and creates no item; when conversation.item.created for that identifier
\* is then processed, the item's formatted transcript is the queued transcript
\* and the queue entry is gone.
C7_QueuedTranscriptAttached ==
    /\ (convLast.op = "transcription.completed" /\ ~convLast.pre) =>
           /\ convLast.id \notin DOMAIN item_lookup
           /\ convLast.id \in DOMAIN queued_transcript_items
           /\ queued_transcript_items[convLast.id].transcript = convLast.arg
    /\ (convLast.op = "item.created" /\ convLast.pre.isNew /\ convLast.pre.hasTranscript) =>
           /\ item_lookup[convLast.id].formatted.transcript = convLast.pre.transcript
           /\ convLast.id \notin DOMAIN queued_transcript_items

\* C8: after speech-started(X, s), speech-stopped(X, e) with the full caller
\* buffer and item-created(X), the created item's formatted audio is the samples
\* [floor(s * 24000 / 1000), floor(e * 24000 / 1000)) of that buffer.
C8_SpeechSliceAttached ==
    (/\ convLast.op = "item.created"
     /\ convLast.pre.isNew
     /\ convLast.pre.hasSpeech
     /\ convLast.pre.speech.hasAudio) =>
        item_lookup[convLast.id].formatted.audio =
            SampleSlice(InputBuffer, MsToIndex(convLast.pre.speech.audio_start_ms),
                        MsToIndex(convLast.pre.speech.audio_end_ms))

\* C9: the response lookup and the ordered response list hold exactly one entry
\* per distinct identifier, and a response.created for an identifier already
\* present changes neither, the accumulated output list included.
C9_ResponseCreatedIdempotent ==
    /\ ListIds(responses) = DOMAIN response_lookup
    /\ Len(responses) = Cardinality(DOMAIN response_lookup)
    /\ (convLast.op = "response.created" /\ ~convLast.pre.isNew) =>
           /\ response_lookup = convLast.pre.response_lookup
           /\ responses = convLast.pre.responses

\* a second response.created arrived for a response that has an output item
C9_Witness ==
    /\ convLast.op = "response.created"
    /\ ~convLast.pre.isNew
    /\ response_lookup[convLast.id].output # <<>>

\* --------------------------------------------------- event bus: claims
\* how many registrations of callback a handler list holds
RECURSIVE Registrations(_, _)
Registrations(handlers, callback) ==
    IF handlers = <<>> THEN 0
    ELSE (IF Head(handlers) = callback THEN 1 ELSE 0)
         + Registrations(Tail(handlers), callback)

\* new is old without one of its registrations of callback
OneRemoved(old, new, callback) ==
    \E i \in DOMAIN old :
        /\ old[i] = callback
        /\ new = SubSeq(old, 1, i - 1) \o SubSeq(old, i + 1, Len(old))

\* what a removal (off on the persistent table, off_next on the one-shot
\* table) must have done to its table, given the table before the call
RemovalContract(table, before) ==
    LET name == busLast.name
        old == HandlersOf(before, name)
        new == HandlersOf(table, name)
    IN  /\ \A n \in EventNames \ {name} :
               /\ HandlersOf(table, n) = HandlersOf(before, n)
               /\ n \in DOMAIN table <=> n \in DOMAIN before
        /\ IF busLast.cb = NoCallback
           THEN busLast.res = "ok" /\ new = <<>>
           ELSE IF Registrations(old, busLast.cb) = 0
           THEN busLast.res = "NotFound" /\ table = before
           ELSE busLast.res = "ok" /\ OneRemoved(old, new, busLast.cb)

\* C10: off / off_next with a callback that is not registered for the name fail
\* with NotFound and change no handler list; with a registered callback they
\* remove exactly one registration of it; without a callback they remove every
\* persistent (one-shot) handler of the name and succeed, also when there is
\* none; the handlers of other names and the other table are never touched.
C10_RemovalContract ==
    /\ busLast.op = "off" =>
           /\ RemovalContract(event_handlers, busLast.pre.event_handlers)
           /\ next_event_handlers = busLast.pre.next_event_handlers
    /\ busLast.op = "off_next" =>
           /\ RemovalContract(next_event_handlers, busLast.pre.next_event_handlers)
           /\ event_handlers = busLast.pre.event_handlers

\* off(name, cb) failed with NotFound while another callback is registered for
\* the name, persistently and one-shot
C10_Witness ==
    /\ busLast.op = "off"
    /\ busLast.res = "NotFound"
    /\ HandlersOf(event_handlers, busLast.name) # <<>>
    /\ HandlersOf(next_event_handlers, busLast.name) # <<>>

\* C11: a dispatch invokes exactly the persistent handlers registered for the
\* name when it began, in registration order, and then exactly the one-shot
\* handlers registered for the name when it began, in registration order,
\* whatever the handlers it invokes register or unregister.
C11_DispatchSnapshotsBoth ==
    busLast.op = "dispatch" =>
        /\ busLast.res.persistent = HandlersOf(busLast.pre.event_handlers, busLast.name)
        /\ busLast.res.one_shot = HandlersOf(busLast.pre.next_event_handlers, busLast.name)

\* C12: a dispatch discards no one-shot registration it has not invoked (of
\* every callback, the list deleted at the end holds at most the registrations
\* the dispatch invoked), and leaves no one-shot handler of the name for a
\* later dispatch.
C12_OneShotInvokedOnce ==
    busLast.op = "dispatch" =>
        /\ \A c \in Callbacks \cup Tasks :
               Registrations(busLast.res.discarded, c)
                   <= Registrations(busLast.res.one_shot, c)
        /\ HandlersOf(next_event_handlers, busLast.name) = <<>>

\* what C13 says of a task whose wait_for_next has returned: a payload it
\* returns is that of the first dispatch of its name after the call; it returns
\* None only at its timeout; without timeout it returns only after a dispatch
\* of its name
WaitResultContract(t) ==
    waiters[t].pc = "returned" =>
        /\ waiters[t].result \in Payloads => waiters[t].result = waitHist[t].first
        /\ waiters[t].result = "None" => waiters[t].timed /\ waitHist[t].timedOut
        /\ ~waiters[t].timed => waitHist[t].first # "none"

\* C13 as stated: the first dispatch of the name after the call resumes the
\* waiting task with its payload (every task waiting on the name, with the same
\* payload); a task returns None only if its timeout elapsed before any
\* dispatch of the name; without timeout it never returns before a dispatch.
C13_WaitResumedByFirstDispatch ==
    \A t \in Tasks :
        /\ WaitResultContract(t)
        /\ (waiters[t].pc = "waiting" /\ waitHist[t].first # "none") =>
               waiters[t].future = waitHist[t].first
        /\ (waiters[t].pc = "returned" /\ waiters[t].result = "None") =>
               waitHist[t].first = "none"

\* C13 amended: as stated, for the tasks whose one-shot handler has not been
\* removed by off_next(name) or clear_event_handlers before the dispatch; a task
\* whose handler was removed is resumed by no dispatch: it returns None at its
\* timeout and never without one.
C13_WaitResumedUnlessRemoved ==
    \A t \in Tasks :
        /\ WaitResultContract(t)
        /\ (waiters[t].pc = "waiting" /\ waitHist[t].first # "none"
                /\ ~waitHist[t].removed) =>
               waiters[t].future = waitHist[t].first
        /\ (waiters[t].pc = "returned" /\ waiters[t].result = "None") =>
               waitHist[t].first = "none" \/ waitHist[t].removed
        /\ (waiters[t].pc = "waiting" /\ waitHist[t].removed) =>
               waiters[t].future = "pending"

\* two tasks waited on the same name, one with a timeout, and both returned
\* the payload of the same dispatch
C13_Witness ==
    /\ waiters["w1"].pc = "returned"
    /\ waiters["w2"].pc = "returned"
    /\ waiters["w1"].name = waiters["w2"].name
    /\ waiters["w1"].timed /\ ~waiters["w2"].timed
    /\ waiters["w1"].result \in Payloads
    /\ waiters["w1"].result = waiters["w2"].result
    /\ busLast.op = "dispatch"

\* -------------------------------------------------- transport: claims
\* the frames and the bus events the last step added
NewFrames == SubSeq(wire, apiLast.pre.nWire + 1, Len(wire))
NewEvents == SubSeq(apiEvents, apiLast.pre.nEvents + 1, Len(apiEvents))

\* the close events dispatched for a socket
RECURSIVE CloseEvents(_, _)
CloseEvents(events, sock) ==
    IF events = <<>> THEN 0
    ELSE (IF Head(events).name = "close" /\ Head(events).sock = sock THEN 1 ELSE 0)
         + CloseEvents(Tail(events), sock)

\* the events dispatched under the type of an inbound frame, in order
RECURSIVE ServerEvents(_)
ServerEvents(events) ==
    IF events = <<>> THEN <<>>
    ELSE (IF Head(events).name \in FrameTypes THEN <<Head(events).name>> ELSE <<>>)
         \o ServerEvents(Tail(events))

\* C14: send fails with ConnectionError when the transport is not connected and
\* with a validation error when the payload is not a dictionary (None, the
\* default, stands for no payload); a failed send transmits no frame and
\* dispatches no event; a successful send transmits exactly one frame with a new
\* event_id and the type and dispatches exactly one client.<type> event.
C14_SendContract ==
    apiLast.op = "send" =>
        /\ ~apiLast.pre.connected => apiLast.res = "ConnectionError"
        /\ (apiLast.pre.connected /\ ~IsDict(apiLast.arg) /\ apiLast.arg # "None") =>
               apiLast.res = "ValueError"
        /\ apiLast.res # "ok" => NewFrames = <<>> /\ NewEvents = <<>>
        /\ apiLast.res = "ok" =>
               /\ Len(NewFrames) = 1
               /\ NewFrames[1].type \in SendNames
               /\ \A i \in 1..apiLast.pre.nWire : wire[i].event_id # NewFrames[1].event_id
               /\ Len(NewEvents) = 1
               /\ NewEvents[1].name = ClientEvent(NewFrames[1].type)

\* C15: the events dispatched under the type names of inbound frames are the
\* inbound frames that carry a type, each once, in arrival order, and the
\* listen loop is still running after a frame.
C15_InboundDispatchedInOrder ==
    /\ ServerEvents(apiEvents) = arrived
    /\ (apiLast.op = "inbound" /\ apiLast.arg.kind = "typed") =>
           listeners[apiLast.arg.listener].state = "running"

\* C16: when the listen loop has found its socket closed by the remote side,
\* with a normal close code or not, a close event with the error flag has been
\* dispatched, the stored socket is cleared, is_connected() is false and the
\* loop has ended without an exception.
C16_RemoteCloseClearsState ==
    (/\ apiLast.op = "listen_closed"
     /\ socks[listeners[apiLast.arg].sock] \in {"remote_ok", "remote_err"}) =>
        /\ Len(NewEvents) = 1
        /\ NewEvents[1].name = "close" /\ NewEvents[1].error
        /\ ws = 0
        /\ ~is_connected
        /\ listeners[apiLast.arg].state = "ended"

\* C17: disconnect on a connected transport closes the socket, clears the
\* connection state, dispatches one close event with error = false and
\* completes normally; on a transport that is not connected it changes nothing
\* and dispatches nothing; no connection gets more than one close event.
C17_DisconnectIdempotent ==
    /\ apiLast.op = "disconnect" =>
           IF apiLast.pre.connected
           THEN /\ apiLast.res = "True"
                /\ ws = 0
                /\ socks[apiLast.pre.ws] # "open"
                /\ Len(NewEvents) = 1
                /\ NewEvents[1].name = "close" /\ ~NewEvents[1].error
           ELSE /\ NewEvents = <<>>
                /\ socks = apiLast.pre.socks
    /\ \A sock \in DOMAIN socks : CloseEvents(apiEvents, sock) <= 1

\* the sockets of the transport that are open, the listen loops that iterate
\* an open socket or are about to start
OpenSockets == {sock \in DOMAIN socks : socks[sock] = "open"}
LiveListeners ==
    {l \in DOMAIN listeners :
        \/ listeners[l].state = "created"
        \/ listeners[l].state = "running" /\ socks[listeners[l].sock] = "open"}

\* C18: connect on a connected transport fails with ConnectionError and leaves
\* the session and its listen loop as they were; a failed handshake fails with
\* ConnectionError, leaves the transport disconnected and starts no listen
\* loop; the transport never has more than one open socket nor more than one
\* live listen loop.
C18_OneSessionAtMost ==
    /\ (apiLast.op = "connect" /\ apiLast.pre.connected) =>
           /\ apiLast.res = "ConnectionError"
           /\ ws = apiLast.pre.ws
           /\ socks = apiLast.pre.socks
           /\ listeners = apiLast.pre.listeners
    /\ (apiLast.op = "handshake" /\ apiLast.res # "ok") =>
           /\ apiLast.res = "ConnectionError"
           /\ ~is_connected
           /\ listeners = apiLast.pre.listeners
    /\ Cardinality(OpenSockets) <= 1
    /\ Cardinality(LiveListeners) <= 1

\* ------------------------------------- aggregator: rejected events
\* C19: process_event rejects an event without event_id or without type with a
\* validation error, and an event whose type is not one of the 14 handled
\* types as unsupported; a rejected event runs no handler and leaves items,
\* responses, queued speech, queued transcripts and pending input audio as
\* they were.
C19_InvalidEventRejected ==
    /\ Cardinality(event_processors) = 14
    /\ convLast.op = "process_event" =>
           /\ ~convLast.arg.hasEventId => convLast.res = "MissingEventId"
           /\ (convLast.arg.hasEventId /\ ~convLast.arg.hasType) =>
                  convLast.res = "MissingType"
           /\ (convLast.arg.hasEventId /\ convLast.arg.hasType
                   /\ convLast.arg.type \notin event_processors) =>
                  convLast.res = "MissingProcessor"
           /\ convLast.res # "ok" => ConvState = convLast.pre

\* an event of an unhandled type was rejected by an aggregator that holds an
\* item, a queued transcript and pending input audio
C19_Witness ==
    /\ convLast.op = "process_event"
    /\ convLast.res = "MissingProcessor"
    /\ items # <<>>
    /\ queued_transcript_items # <<>>
    /\ queued_input_audio # <<>>

\* the events that refer to an item or a response by identifier
ReferringEvents ==
    {"item.truncated", "item.deleted", "response.output_item.added",
     "response.output_item.done", "response.content_part.added",
     "response.audio_transcript.delta", "response.audio.delta",
     "response.text.delta", "response.function_call_arguments.delta"}

\* the identifier the last event referred to was in its lookup
Referred ==
    IF convLast.op = "response.output_item.added"
    THEN convLast.id \in DOMAIN convLast.pre.response_lookup
    ELSE convLast.id \in DOMAIN convLast.pre.item_lookup

\* C20: an event that refers to an item or response identifier absent from the
\* lookup fails with NotFound and leaves the whole state of the aggregator as
\* it was.
C20_NotFoundLeavesState ==
    /\ convLast.res = "NotFound" =>
           /\ convLast.op \in ReferringEvents
           /\ ~Referred
           /\ ConvState = convLast.pre
    /\ (convLast.op \in ReferringEvents \ {"item.deleted"}
            /\ convLast.res \in {"ok", "KeyError", "LookupError", "DecodeError"}) =>
           convLast.id \in DOMAIN item_lookup \cup DOMAIN response_lookup
    /\ (convLast.op = "item.deleted" /\ convLast.res = "ok") => convLast.pre.found

\* a delta for an absent item was rejected by an aggregator that holds another
\* item and a response
C20_Witness ==
    /\ convLast.op = "response.audio.delta"
    /\ convLast.res = "NotFound"
    /\ items # <<>>
    /\ responses # <<>>

\* ------------------------------------- aggregator: creation and deletion
\* C26: item-created for an identifier with a queued speech segment, whatever
\* the segment holds, succeeds: the item is in the collection with a status,
\* the segment's audio, if it has any, is the item's formatted audio, and no
\* segment stays queued for the identifier
C26_CreatedWithQueuedSpeech ==
    (convLast.op = "item.created" /\ convLast.pre.hasSpeech) =>
        /\ convLast.res = "ok"
        /\ convLast.id \in DOMAIN item_lookup
        /\ item_lookup[convLast.id].status # "none"
        /\ (convLast.pre.isNew /\ convLast.pre.speech.hasAudio) =>
              item_lookup[convLast.id].formatted.audio = convLast.pre.speech.audio
        /\ convLast.id \notin DOMAIN queued_speech_items

\* the list without the elements equal to v, the others in their order
Without(list, v) == SelectSeq(list, LAMBDA x : x # v)

\* the events that refer to an item by identifier and fail when it is absent
ItemEvents ==
    {"item.truncated", "response.content_part.added",
     "response.audio_transcript.delta", "response.audio.delta",
     "response.text.delta", "response.function_call_arguments.delta"}

C28_FormattedByReplay ==
    /\ \A id \in DOMAIN item_lookup :
          /\ item_lookup[id].formatted.text = convLast.replay[id].text
          /\ item_lookup[id].formatted.audio = convLast.replay[id].audio
          /\ item_lookup[id].type = "function_call" =>
                /\ item_lookup[id].arguments = convLast.replay[id].args
                /\ item_lookup[id].formatted.hasTool
                /\ item_lookup[id].formatted.toolArgs = convLast.replay[id].args
    /\ (/\ convLast.op = "transcription.completed"
        /\ convLast.res = "ok"
        /\ convLast.id \in DOMAIN item_lookup) =>
          item_lookup[convLast.id].formatted.transcript = convLast.arg

\* ------------------------------------------------------- codec: claims
\* C21: a buffer encoded with array_buffer_to_base64 and decoded with
\* base64_to_array_buffer comes back byte for byte
C21_RoundTrip ==
    codecPc = "decoded" => codecOutput = [ok |-> TRUE, bytes |-> codecInput]

\* a buffer whose last group is padded has made the round trip
C21_Witness ==
    /\ codecPc = "decoded"
    /\ Len(codecInput) = 4
    /\ codecText[Len(codecText)] = "="
    /\ codecOutput.bytes = codecInput

\* ------------------------------------------------------ client: claims
\* the commands of the wire stand in the order in which their sends were
\* scheduled
WireInOrder ==
    \A i, j \in DOMAIN clientWire : i < j => clientWire[i].n < clientWire[j].n

HasAudioPart(content) == \E i \in DOMAIN content : content[i].type = "audio"

FirstAudioPart(content) ==
    (CHOOSE i \in DOMAIN content :
        /\ content[i].type = "audio"
        /\ \A j \in 1..(i - 1) : content[j].type # "audio") - 1

\* the call is for an assistant message that has an audio content part
Cancellable(item) ==
    /\ item.found
    /\ item.type = "message"
    /\ item.role = "assistant"
    /\ HasAudioPart(item.content)

\* C22: cancel_response(id, sample_count) for an assistant message with an
\* audio part sends one response.cancel and then one conversation.item.truncate
\* with the id, the index of the first audio part and audio_end_ms =
\* floor(sample_count * 1000 / 24000), in that order on the socket; with no
\* id it sends one response.cancel and nothing else
C22_CancelThenTruncate ==
    /\ WireInOrder
    /\ clientLast.op = "cancel_response" =>
          /\ clientLast.arg.id = "None" =>
                clientLast.sent = <<Command("response.cancel", NoData)>>
          /\ (clientLast.arg.id # "None" /\ Cancellable(clientLast.arg.item)) =>
                clientLast.sent =
                    <<Command("response.cancel", NoData),
                      Command("conversation.item.truncate",
                          [item_id |-> clientLast.arg.id,
                           content_index |-> FirstAudioPart(clientLast.arg.item.content),
                           audio_end_ms |->
                               (clientLast.arg.sample_count * 1000) \div 24000])>>

\* C29: the client's buffer is the non-empty buffers given to
\* append_input_audio since the last commit, in call order; create_response
\* with turn detection off (as in the default configuration) and a non-empty
\* buffer sends input_audio_buffer.commit and then response.create, hands the
\* buffer to the aggregator as pending input audio and empties it; with server
\* turn detection, or an empty buffer, it sends response.create alone and
\* leaves the buffer as it was
C29_CommitOnCreateResponse ==
    /\ input_audio_buffer = appendedSince
    /\ clientLast.op = "create_response" =>
          LET pre == clientLast.pre
          IN  IF /\ pre.session_config.turn_detection # "server_vad"
                 /\ Len(pre.input_audio_buffer) > 0
              THEN /\ clientLast.res = "True"
                   /\ clientLast.sent = <<Command("input_audio_buffer.commit", NoData),
                                          Command("response.create", NoData)>>
                   /\ \/ queued_input_audio = pre.input_audio_buffer
                      \/ convLast.op = "item.created"
                   /\ input_audio_buffer = <<>>
              ELSE /\ clientLast.res = "True"
                   /\ clientLast.sent = <<Command("response.create", NoData)>>
                   /\ input_audio_buffer = pre.input_audio_buffer

\* the commands a failed cancel_response must not send
CancelCommands == {"response.cancel", "conversation.item.truncate"}

\* C30: a client call that fails its validation changes nothing: when
\* update_session raises for a tool name already registered, the session
\* configuration is what it was before the call and no session.update is sent;
\* when cancel_response raises, neither response.cancel nor
\* conversation.item.truncate is sent
C30_FailedCallsChangeNothing ==
    /\ (clientLast.op = "update_session" /\ clientLast.res = "ValueError") =>
          /\ session_config = clientLast.pre.session_config
          /\ clientLast.sent = <<>>
    /\ (clientLast.op = "cancel_response" /\ clientLast.res = "ValueError") =>
          \A i \in 1..Len(clientLast.sent) :
              clientLast.sent[i].type \notin CancelCommands

\* ------------------------------------------- aggregator: lookups and lists

\* C31: after any events, failed ones included, the item lookup and the item
\* list hold the same identifiers, each once in the list, and every item of the
\* collection has a formatted view; the response lookup and the response list
\* hold the same identifiers
C31_LookupsMatchLists ==
    /\ ListIds(items) = DOMAIN item_lookup
    /\ Len(items) = Cardinality(DOMAIN item_lookup)
    /\ \A id \in DOMAIN item_lookup :
          item_lookup[id].id = id /\ item_lookup[id].hasFormatted
    /\ ListIds(responses) = DOMAIN response_lookup
    /\ Len(responses) = Cardinality(DOMAIN response_lookup)

\* an item-created event has just failed with its item inserted, a response
\* is in the collection
C31_Witness ==
    /\ convLast.op = "item.created"
    /\ convLast.res = "KeyError"
    /\ convLast.id \in DOMAIN item_lookup
    /\ responses # <<>>

\* C32: item-created for an identifier already in the collection changes
\* nothing in the aggregator: the stored item keeps its formatted text,
\* transcript, audio and status, and no queued speech segment, queued
\* transcript or pending input audio is consumed by the duplicate
C32_DuplicateCreatedChangesNothing ==
    (convLast.op = "item.created" /\ ~convLast.pre.isNew) =>
        LET pre == convLast.pre
            id == convLast.id
        IN  /\ item_lookup = pre.item_lookup
            /\ items = pre.items
            /\ pre.hasSpeech =>
                  /\ id \in DOMAIN queued_speech_items
                  /\ queued_speech_items[id] = pre.speech
            /\ pre.hasTranscript =>
                  /\ id \in DOMAIN queued_transcript_items
                  /\ queued_transcript_items[id].transcript = pre.transcript
            /\ queued_input_audio = pre.pending

\* ------------------------------------------------- event bus: timeouts

\* the tasks suspended in wait_for_next on a name
WaitingOn(name) == {t \in Tasks : waiters[t].pc = "waiting" /\ waiters[t].name = name}

\* how many entries of a handler list were registered directly with on_next
DirectCount(list) == Cardinality({i \in DOMAIN list : list[i] \in Callbacks})

\* C33: when wait_for_next returns at its timeout, the one-shot handler it
\* registered is no longer registered for the name, so a name never has more
\* one-shot handlers than tasks waiting on it plus handlers registered
\* directly with on_next
C33_TimeoutUnregisters ==
    /\ \A t \in Tasks :
          (waiters[t].pc = "returned" /\ waitHist[t].timedOut) =>
              ~IsRegistered(HandlersOf(next_event_handlers, waiters[t].name), t)
    /\ \A name \in EventNames :
          Len(HandlersOf(next_event_handlers, name)) <=
              Cardinality(WaitingOn(name))
                  + DirectCount(HandlersOf(next_event_handlers, name))

====
